---- MODULE Spec2Model ----
(***************************************************************************)
(* Model of the client-side chat session controller of SalesTrainerAI      *)
(* (static/js/chat.js): the send/receive lifecycle of handleSendMessage,   *)
(* requestFeedback, the message list, the error display, the status        *)
(* indicator, the voice capture adapter, the feedback modal and its        *)
(* download; and of the script of the signup page (templates/signup.html): *)
(* the password strength meter, the form's validation and the registration *)
(* request; and of the script of the landing page (templates/landing.html):*)
(* the testimonial carousel and its auto-advance timers.                   *)
(*                                                                         *)
(* The script runs on the browser's single event-loop thread: every        *)
(* handler below is one atomic action.  A fetch() is a record in           *)
(* sendRequests / a unit of feedbackRequests from the step that issues it  *)
(* to the step in which its promise chain (.then/.then/.catch) runs.       *)
(*                                                                         *)
(* Texts are sequences of one-character strings, so that trim(), split(),   *)
(* join() and the regular-expression replacements of the renderer are      *)
(* computed as the code computes them.  An HTML tag is one element of such *)
(* a sequence ("<li>"), in the markup the script generates and in the      *)
(* texts it is given alike; no text holds a part of a tag.                 *)
(***************************************************************************)
EXTENDS Integers, Sequences, FiniteSets, TLC

VARIABLES
    messageInput,          \* [value, disabled] of the <textarea>
    isWaitingForResponse,  \* the in-flight flag of handleSendMessage
    currentConversationId, \* active conversation identifier, or NoConversation
    statusIndicator,       \* [classList, innerHTML]
    chatMessages,          \* children of the message list, in document order
    chatTitle,             \* chatTitle.textContent
    sidebarTitle,          \* .conversation-title of the matching sidebar item
    feedbackBtn,           \* [disabled]
    sendRequests,          \* in-flight POST /chat/<id>/message, oldest first
    feedbackRequests,      \* number of in-flight GET /chat/<id>/feedback
    feedbackModal,         \* [active, content] : class 'active' of the modal
                           \* and innerHTML of its content element
    bodyModalOpen,         \* class 'modal-open' of document.body
    recognition,           \* the recognizer object, or NoRecognition
    recognizer,            \* the platform recognizer's own lifecycle
    isRecording,           \* the adapter's state flag
    voiceIndicator,        \* [active]
    voiceBtn,              \* [active]
    submitTimers,          \* pending 300 ms auto-submit timers
    fetchCount,            \* [message, feedback] : fetch() calls made so far
    passCount,             \* [message, feedback] : calls that passed the guard
    lastStep,              \* the handler that ran last and what it did
    objectURLs,            \* blob URLs created and not revoked yet
    bodyAnchors,           \* the download's <a> elements that are in the body
    cleanupTimers,         \* pending 100 ms clean-up timers of downloadFeedback
    savedFiles,            \* what a.click() saved: [href, download, text]
    signupForm,            \* [name, email, password, confirmPassword, agree]
    passwordFields,        \* [type, icon] : type of both password inputs and
                           \* the classes of the toggle's icon
    strengthMeter,         \* [text, segments] : strengthText.textContent and
                           \* the class added to each .strength-segment
    signupError,           \* [display, textContent, shake] of #signupError
    submitButton,          \* [disabled, innerHTML] of the signup button
    registerRequest,       \* the in-flight POST /auth/register: <<>> or one
                           \* record with what the handler holds for it
    registerCount,         \* fetch('/auth/register') calls made so far
    shakeTimers,           \* pending 500 ms timers of the signup showError
    location,              \* window.location.href of the signup page
    currentIndex,          \* index of the testimonial shown
    activeTestimonials,    \* indexes of the testimonials with class 'active'
    activeDots,            \* indexes of the dots with class 'active'
    carouselInterval,      \* the timer id the variable carouselInterval holds
    liveIntervals,         \* ids of the interval timers set and not cleared
    intervalCount,         \* setInterval calls made so far
    carouselHover          \* the last pointer event of the carousel, or "none"

vars == <<messageInput, isWaitingForResponse, currentConversationId,
          statusIndicator, chatMessages, chatTitle, sidebarTitle, feedbackBtn,
          sendRequests, feedbackRequests, feedbackModal, bodyModalOpen,
          recognition, recognizer, isRecording, voiceIndicator, voiceBtn,
          submitTimers, fetchCount, passCount, lastStep,
          objectURLs, bodyAnchors, cleanupTimers, savedFiles,
          signupForm, passwordFields, strengthMeter, signupError,
          submitButton, registerRequest, registerCount, shakeTimers,
          location, currentIndex, activeTestimonials, activeDots,
          carouselInterval, liveIntervals, intervalCount, carouselHover>>

\* the state of the landing page
landingVars == <<currentIndex, activeTestimonials, activeDots,
                 carouselInterval, liveIntervals, intervalCount,
                 carouselHover>>

\* the state of the feedback download
downloadVars == <<objectURLs, bodyAnchors, cleanupTimers, savedFiles>>

\* the state of the signup page
signupVars == <<signupForm, passwordFields, strengthMeter, signupError,
                submitButton, registerRequest, registerCount, shakeTimers,
                location>>

\* the state of the chat page but the step record and the download
chatVars == <<messageInput, isWaitingForResponse, currentConversationId,
              statusIndicator, chatMessages, chatTitle, sidebarTitle,
              feedbackBtn, sendRequests, feedbackRequests, feedbackModal,
              bodyModalOpen, recognition, recognizer, isRecording,
              voiceIndicator, voiceBtn, submitTimers, fetchCount, passCount>>

----------------------------------------------------------------------------
(* Bounds of the model *)

MaxSends == 3        \* submit events that pass the guard, no recognizer
MaxFeedback == 1     \* requestFeedback calls that pass the guard, no recognizer
MaxVoiceSends == 2   \* submit events that pass the guard, with a recognizer
MaxErrors == 1       \* error elements present at once
MaxTimers == 1       \* pending auto-submit timers
MaxLen == 4          \* length of the enumerated message texts
MaxDownloads == 2    \* downloadFeedback calls
MaxRegistrations == 1 \* registration requests
MaxShakeTimers == 1  \* pending timers of the signup showError
MaxPassword == 13    \* length of the enumerated passwords
MaxIntervals == 4    \* setInterval calls of the landing page

----------------------------------------------------------------------------
(* Texts *)

SP == " "
TAB == "\t"
NL == "\n"

Whitespace == {SP, TAB, NL}

Undefined == <<"#undefined">>     \* the JavaScript value undefined
NoConversation == "#null"
NoRecognition == "#null"
NoSidebarItem == <<"#no-item">>

NewConversation ==
    <<"N","e","w"," ","C","o","n","v","e","r","s","a","t","i","o","n">>

Ellipsis == <<".", ".", ".">>

RECURSIVE TrimStart(_)
TrimStart(s) ==
    IF s = <<>> THEN <<>>
    ELSE IF Head(s) \in Whitespace THEN TrimStart(Tail(s)) ELSE s

RECURSIVE TrimEnd(_)
TrimEnd(s) ==
    IF s = <<>> THEN <<>>
    ELSE IF s[Len(s)] \in Whitespace THEN TrimEnd(SubSeq(s, 1, Len(s) - 1))
    ELSE s

\* String.prototype.trim
Trim(s) == TrimEnd(TrimStart(s))

\* String.prototype.split(sep) for a one-character separator: the pieces
\* between consecutive occurrences of sep, empty pieces included.
RECURSIVE SplitFrom(_, _, _)
SplitFrom(s, sep, cur) ==
    IF s = <<>> THEN <<cur>>
    ELSE IF Head(s) = sep THEN <<cur>> \o SplitFrom(Tail(s), sep, <<>>)
    ELSE SplitFrom(Tail(s), sep, Append(cur, Head(s)))

Split(s, sep) == SplitFrom(s, sep, <<>>)

\* Array.prototype.slice(0, n)
Slice0(a, n) == SubSeq(a, 1, IF Len(a) < n THEN Len(a) ELSE n)

\* Array.prototype.join(sep)
RECURSIVE Join(_, _)
Join(a, sep) ==
    IF a = <<>> THEN <<>>
    ELSE IF Len(a) = 1 THEN a[1]
    ELSE a[1] \o <<sep>> \o Join(Tail(a), sep)

----------------------------------------------------------------------------
(* The markup transform of addMessage and showFeedbackModal *)

StartsWith(s, prefix) ==
    Len(s) >= Len(prefix) /\ SubSeq(s, 1, Len(prefix)) = prefix

Drop(s, n) == SubSeq(s, n + 1, Len(s))

\* String.prototype.indexOf for one element, counted from 1; 0 when absent
RECURSIVE IndexOf(_, _)
IndexOf(s, x) ==
    IF s = <<>> THEN 0
    ELSE IF Head(s) = x THEN 1
    ELSE LET n == IndexOf(Tail(s), x) IN IF n = 0 THEN 0 ELSE n + 1

HeaderMark == <<"#", "#", "#", SP>>
HeaderTail == <<SP, "#", "#", "#">>

\* Lines 136 and 349: replace(/### (.*?)( ###)?/g, '<h3>$1</h3>').  After
\* '### ' the lazy group (.*?) is tried with no character first, and the
\* optional group that follows accepts that by matching ' ###' right there or
\* nothing: the match never extends over the text of the line and $1 is empty.
RECURSIVE ReplaceHeaders(_)
ReplaceHeaders(s) ==
    IF s = <<>> THEN <<>>
    ELSE IF StartsWith(s, HeaderMark)
    THEN LET group1 == <<>>
             rest == Drop(s, Len(HeaderMark))
             after == IF StartsWith(rest, HeaderTail)
                      THEN Drop(rest, Len(HeaderTail)) ELSE rest
         IN  <<"<h3>">> \o group1 \o <<"</h3>">> \o ReplaceHeaders(after)
    ELSE <<Head(s)>> \o ReplaceHeaders(Tail(s))

BulletMark == <<"-", SP>>

\* Lines 139 and 350: replace(/- (.*?)(\n|$)/g, '<li>$1</li>').  The pattern
\* is not anchored: '- ' matches wherever it stands; the lazy group runs to
\* the first newline, which the match consumes, or to the end of the text.
RECURSIVE ReplaceBullets(_)
ReplaceBullets(s) ==
    IF s = <<>> THEN <<>>
    ELSE IF StartsWith(s, BulletMark)
    THEN LET rest == Drop(s, Len(BulletMark))
             n == IndexOf(rest, NL)
             group1 == IF n = 0 THEN rest ELSE SubSeq(rest, 1, n - 1)
             after == IF n = 0 THEN <<>> ELSE Drop(rest, n)
         IN  <<"<li>">> \o group1 \o <<"</li>">> \o ReplaceBullets(after)
    ELSE <<Head(s)>> \o ReplaceBullets(Tail(s))

\* Lines 143-144 and 356-357: replace(/<li>(.*?)<\/li>/g, ...) wraps every
\* '<li>', up to the first '</li>' after it, in '<ul>' and '</ul>'; the dot
\* matches no newline, so an item with a newline in it is left as it is.
RECURSIVE WrapItems(_)
WrapItems(s) ==
    IF s = <<>> THEN <<>>
    ELSE IF Head(s) = "<li>"
    THEN LET rest == Tail(s)
             close == IndexOf(rest, "</li>")
             nl == IndexOf(rest, NL)
         IN  IF close > 0 /\ (nl = 0 \/ nl > close)
             THEN <<"<ul>", "<li>">> \o SubSeq(rest, 1, close - 1)
                      \o <<"</li>", "</ul>">> \o WrapItems(Drop(rest, close))
             ELSE <<"<li>">> \o WrapItems(rest)
    ELSE <<Head(s)>> \o WrapItems(Tail(s))

\* Lines 145 and 358: replace(/<\/ul><ul>/g, '')
RECURSIVE MergeLists(_)
MergeLists(s) ==
    IF s = <<>> THEN <<>>
    ELSE IF StartsWith(s, <<"</ul>", "<ul>">>) THEN MergeLists(Drop(s, 2))
    ELSE <<Head(s)>> \o MergeLists(Tail(s))

\* Lines 142-146 and 355-359
WrapLists(s) ==
    IF IndexOf(s, "<li>") > 0 THEN MergeLists(WrapItems(s)) ELSE s

\* replace(/\n\n/g, '<br><br>')
RECURSIVE ReplaceBlankLines(_)
ReplaceBlankLines(s) ==
    IF s = <<>> THEN <<>>
    ELSE IF StartsWith(s, <<NL, NL>>)
    THEN <<"<br>", "<br>">> \o ReplaceBlankLines(Drop(s, 2))
    ELSE <<Head(s)>> \o ReplaceBlankLines(Tail(s))

\* replace(/\n/g, '<br>')
RECURSIVE ReplaceNewlines(_)
ReplaceNewlines(s) ==
    IF s = <<>> THEN <<>>
    ELSE <<IF Head(s) = NL THEN "<br>" ELSE Head(s)>> \o ReplaceNewlines(Tail(s))

\* Lines 149 and 351-352
ConvertLineBreaks(s) == ReplaceNewlines(ReplaceBlankLines(s))

\* Lines 134-150: formattedContent of an assistant message.
FormatContent(content) ==
    ConvertLineBreaks(WrapLists(ReplaceBullets(ReplaceHeaders(content))))

\* Lines 348-359: formattedFeedback, the line breaks converted before the
\* list items are wrapped.
FormatFeedback(feedback) ==
    WrapLists(ConvertLineBreaks(ReplaceBullets(ReplaceHeaders(feedback))))

HtmlTags ==
    {"<h3>", "</h3>", "<li>", "</li>", "<ul>", "</ul>", "<br>", "<b>", "</b>"}

\* Lines 153-163 and 361: a text assigned to innerHTML is parsed as HTML.
\* Its tags become elements; textContent is what is left of it as text.
TextContent(html) == SelectSeq(html, LAMBDA x : x \notin HtmlTags)

----------------------------------------------------------------------------
(* The message list and the status indicator *)

StateMarkers == {"ready", "loading", "error"}

\* An ISO-8601 timestamp as toISOString writes it, the hour and the minute
\* being elements of the text.
IsoTime(hour, minute) == <<"2", "0", "2", "4", "-", "0", "5", "-", "0", "1",
                           "T", hour, ":", minute, ":", "0", "0", "Z">>

\* new Date(value): the point in time an ISO-8601 text denotes, and for
\* every other text and for undefined the Invalid Date; it does not throw.
NewDate(value) ==
    IF /\ value # Undefined
       /\ Len(value) = 18
       /\ value = IsoTime(value[12], value[14])
    THEN [valid |-> TRUE, hour |-> value[12], minute |-> value[14]]
    ELSE [valid |-> FALSE, hour |-> "", minute |-> ""]

\* toLocaleTimeString([], {hour: '2-digit', minute: '2-digit'}), which
\* returns 'Invalid Date' for the Invalid Date and does not throw either.
ToLocaleTimeString(date) ==
    IF date.valid THEN <<date.hour, ":", date.minute>>
    ELSE <<"Invalid Date">>

\* new Date(): the clock of the page, which the model does not advance
Now == IsoTime("12", "00")

\* Lines 124-130: timestampStr.  Nothing in the try block throws, so the
\* catch block, which would take the current time, never runs.
TimestampStr(message) == ToLocaleTimeString(NewDate(message.timestamp))

\* every message rendered with the class of an assistant message
MessageElement_AlwaysAssistant(message) ==
    [cls |-> "message", role |-> "assistant",
     content |-> IF message.role = "assistant"
                 THEN FormatContent(message.content) ELSE message.content,
     timestamp |-> TimestampStr(message), fadeOut |-> FALSE]

\* A child element of the message list: a rendered message (class
\* 'message <role>', content the innerHTML of its .message-content and
\* timestamp that of its .message-timestamp) or an error element (class
\* 'error-message', which the first timer of showError extends by
\* 'fade-out').
MessageElement(message) ==
    [cls |-> "message", role |-> message.role,
     content |-> IF message.role = "assistant"
                 THEN FormatContent(message.content) ELSE message.content,
     timestamp |-> TimestampStr(message), fadeOut |-> FALSE]

\* No handler reads the text of an error element once it is shown: the
\* element carries none here, and the step that shows it records the text in
\* lastStep.shown.
ErrorElement ==
    [cls |-> "error-message", role |-> "", content |-> <<>>,
     timestamp |-> <<>>, fadeOut |-> FALSE]

\* A message record as addMessage receives it; a missing record is NullMessage.
Message(role, content, timestamp) ==
    [isNull |-> FALSE, role |-> role, content |-> content,
     timestamp |-> timestamp]

NullMessage == [isNull |-> TRUE, role |-> "", content |-> <<>>, timestamp |-> <<>>]

\* addMessage throws a TypeError where it calls .replace on content that is
\* not a string, which it does for the role 'assistant' only.
AddMessageThrows(message) ==
    /\ ~message.isNull
    /\ message.role = "assistant"
    /\ message.content = Undefined

\* addMessage(message): nothing for a missing record, else one element
\* appended at the end of the list.
AddMessage(list, message) ==
    IF message.isNull THEN list ELSE Append(list, MessageElement(message))

\* showError(message): one error element appended at the end of the list.
ShowError(list, text) == Append(list, ErrorElement)

\* document.querySelectorAll('.message').length
RECURSIVE CountMessages(_)
CountMessages(list) ==
    IF list = <<>> THEN 0
    ELSE (IF Head(list).cls = "message" THEN 1 ELSE 0) + CountMessages(Tail(list))

\* the error elements of the list
CountErrors(list) == Len(list) - CountMessages(list)

\* the marker added without the previous ones being removed
UpdateStatus_KeepsPrevious(indicator, message, state) ==
    [classList |-> indicator.classList
                      \cup (IF state \in StateMarkers THEN {state} ELSE {}),
     innerHTML |-> <<state, message>>]

\* updateStatus(message, state)
UpdateStatus(indicator, message, state) ==
    [classList |-> (indicator.classList \ StateMarkers)
                      \cup (IF state \in StateMarkers THEN {state} ELSE {}),
     innerHTML |-> <<state, message>>]

\* Lines 46-48: the title derived from the words of the user's message, or
\* the title as it is when the message has no more than two words.
DeriveTitle(title, messageText) ==
    LET words == Split(messageText, SP)
    IN  IF Len(words) > 2 THEN Join(Slice0(words, 5), SP) \o Ellipsis
        ELSE title

\* the fallback shown whatever the server sent
OrElse_AlwaysFallback(a, b) == b

\* a || b for strings: b when a is undefined or empty
OrElse(a, b) == IF a = Undefined \/ a = <<>> THEN b ELSE a

----------------------------------------------------------------------------
(* What the user types and what the server answers *)

Txt_abc == <<"a", SP, "b", SP, "c">>
Txt_blank == <<SP, NL>>
Txt_reply == <<"o", "k">>
Txt_served == <<"b", "u", "s", "y">>

\* texts typed into the input field
InputTexts == {Txt_blank, Txt_abc}

\* the timestamp the server puts on its replies
ServerTime == IsoTime("12", "01")

\* data.message of a success response
ReplyMessages ==
    {NullMessage, Message("assistant", Txt_reply, ServerTime),
     Message("assistant", Undefined, ServerTime)}

FetchFailed == <<"Failed to fetch">>
NullData == <<"Cannot read properties of null">>
NotAString == <<"Cannot read properties of undefined (reading 'replace')">>

Response(type, isNull, status, message, feedback, error, errorMessage) ==
    [type |-> type, isNull |-> isNull, status |-> status, message |-> message,
     feedback |-> feedback, error |-> error, errorMessage |-> errorMessage]

\* The ways fetch(...).then(response => response.json()) settles: rejected
\* (transport failure, body that is not JSON), or fulfilled with the parsed
\* body, which is null, a success envelope or any other envelope.
Rejected == Response("reject", FALSE, "", NullMessage, <<>>, <<>>, FetchFailed)
JsonNull == Response("json", TRUE, "", NullMessage, <<>>, <<>>, <<>>)
JsonSuccess(message, feedback) ==
    Response("json", FALSE, "success", message, feedback, <<>>, <<>>)
JsonError(error) ==
    Response("json", FALSE, "error", NullMessage, <<>>, error, <<>>)

ErrorFields == {Undefined, <<>>, Txt_served}

SendResponses ==
    {Rejected, JsonNull}
        \cup {JsonSuccess(m, Undefined) : m \in ReplyMessages}
        \cup {JsonError(e) : e \in ErrorFields}

FeedbackResponses ==
    {Rejected, JsonNull}
        \cup {JsonSuccess(NullMessage, f) : f \in {Undefined, Txt_reply}}
        \cup {JsonError(e) : e \in ErrorFields}

NoData == Response("", FALSE, "", NullMessage, <<>>, <<>>, <<>>)

\* lastStep tells a submit event, an accepted feedback click, the run of a
\* promise chain (with what it was settled with) and a recognition error from
\* every other event, and holds the text the step passed to showError.
Step(op, result, data, shown) ==
    [op |-> op, result |-> result, data |-> data, shown |-> shown]

Event == Step("event", "", NoData, <<>>)

\* How many requests the exploration lets the user issue: the page with a
\* recognizer has the larger state space and the smaller budget.
SendBudget ==
    IF recognition = NoRecognition THEN MaxSends ELSE MaxVoiceSends

FeedbackBudget ==
    IF recognition = NoRecognition THEN MaxFeedback ELSE MaxFeedback - 1

\* How many auto-submit timers the exploration lets be pending at once: the
\* page without a conversation, whose submit events all return at line 6, has
\* the smaller state space and the larger budget.
TimerBudget ==
    IF currentConversationId = NoConversation THEN MaxTimers + 1 ELSE MaxTimers

----------------------------------------------------------------------------
(* handleSendMessage *)

\* the guard without the in-flight flag
SendBlocked_IgnoresFlag(messageText) ==
    \/ messageText = <<>>
    \/ currentConversationId = NoConversation

\* the guard testing the text of the field as typed, not trimmed
SendBlocked_RawText(messageText) ==
    \/ messageInput.value = <<>>
    \/ isWaitingForResponse
    \/ currentConversationId = NoConversation

\* Line 6: the early return of handleSendMessage.
SendBlocked(messageText) ==
    \/ messageText = <<>>
    \/ isWaitingForResponse
    \/ currentConversationId = NoConversation

\* Lines 2-32, all variables but submitTimers: one submit event of the
\* message form, whoever dispatched it.
HandleSendMessage ==
    LET messageText == Trim(messageInput.value)
        echoed == AddMessage(chatMessages,
                             Message("user", messageText, Now))
    IN  IF SendBlocked(messageText)
        THEN /\ lastStep' = Step("submit", "blocked", NoData, <<>>)
             /\ UNCHANGED <<messageInput, isWaitingForResponse,
                            currentConversationId, statusIndicator,
                            chatMessages, chatTitle, sidebarTitle, feedbackBtn,
                            sendRequests, feedbackRequests, feedbackModal,
                            bodyModalOpen, recognition, recognizer,
                            isRecording, voiceIndicator, voiceBtn,
                            fetchCount, passCount>>
        ELSE /\ passCount.message < SendBudget
             /\ messageInput' = [value |-> <<>>, disabled |-> TRUE]
             /\ isWaitingForResponse' = TRUE
             /\ statusIndicator' =
                    UpdateStatus(statusIndicator, "Thinking...", "loading")
             /\ chatMessages' = echoed
             /\ sendRequests' =
                    Append(sendRequests,
                           [messageText |-> messageText,
                            conversationId |-> currentConversationId,
                            rendered |-> CountMessages(echoed)])
             /\ fetchCount' = [fetchCount EXCEPT !.message = @ + 1]
             /\ passCount' = [passCount EXCEPT !.message = @ + 1]
             /\ lastStep' = Step("submit", "sent", NoData, <<>>)
             /\ UNCHANGED <<currentConversationId, chatTitle, sidebarTitle,
                            feedbackBtn, feedbackRequests, feedbackModal,
                            bodyModalOpen, recognition, recognizer,
                            isRecording, voiceIndicator, voiceBtn>>

\* The user submits the form (Enter or the send button).
SubmitForm ==
    /\ HandleSendMessage
    /\ UNCHANGED submitTimers
    /\ UNCHANGED <<downloadVars, signupVars, landingVars>>

\* the oldest child removed, whichever was asked for
RemoveAt_Oldest(seq, i) == Tail(seq)

\* removeChild / a settled promise: the sequence without its i-th element
RemoveAt(seq, i) == SubSeq(seq, 1, i - 1) \o SubSeq(seq, i + 1, Len(seq))

\* How the promise chain of a message request ends: "rejected" by the
\* transport or the JSON parser, "invalid" where the body is null and reading
\* data.status throws, "threw" where addMessage throws in the success
\* branch, "success" and "refused" for the two branches of line 39.
SendOutcome(response) ==
    IF response.type = "reject" THEN "rejected"
    ELSE IF response.isNull THEN "invalid"
    ELSE IF response.status = "success"
    THEN (IF AddMessageThrows(response.message) THEN "threw" ELSE "success")
    ELSE "refused"

\* the .catch handler leaving the input disabled
SendCaught_LeavesDisabled(errorMessage, response) ==
    LET text == <<"Error sending message: ">> \o errorMessage
    IN  /\ isWaitingForResponse' = FALSE
        /\ chatMessages' = ShowError(chatMessages, text)
        /\ statusIndicator' = UpdateStatus(statusIndicator, "Error", "error")
        /\ lastStep' =
               Step("sendResolved", SendOutcome(response), response, text)
        /\ UNCHANGED <<messageInput, chatTitle, sidebarTitle, feedbackBtn>>

\* Lines 76-81: the .catch handler, the chain having been settled with
\* response and having thrown an error with the message errorMessage.
SendCaught(errorMessage, response) ==
    LET text == <<"Error sending message: ">> \o errorMessage
    IN  /\ messageInput' = [messageInput EXCEPT !.disabled = FALSE]
        /\ isWaitingForResponse' = FALSE
        /\ chatMessages' = ShowError(chatMessages, text)
        /\ statusIndicator' = UpdateStatus(statusIndicator, "Error", "error")
        /\ lastStep' =
               Step("sendResolved", SendOutcome(response), response, text)
        /\ UNCHANGED <<chatTitle, sidebarTitle, feedbackBtn>>

\* the control enabled after the first exchange
FeedbackThreshold_AfterOneExchange == 4 - 2

\* Line 64: the number of rendered messages that enables the feedback control.
FeedbackThreshold == 4

\* Lines 39-70: the success branch of the .then handler, addMessage not
\* throwing.
SendSucceeded(request, data) ==
    LET list == AddMessage(chatMessages, data.message)
        newTitle == DeriveTitle(chatTitle, request.messageText)
        retitle == chatTitle = NewConversation /\ newTitle # chatTitle
    IN  /\ messageInput' = [messageInput EXCEPT !.disabled = FALSE]
        /\ isWaitingForResponse' = FALSE
        /\ chatMessages' = list
        /\ chatTitle' = IF retitle THEN newTitle ELSE chatTitle
        /\ sidebarTitle' = IF retitle /\ sidebarTitle # NoSidebarItem
                           THEN newTitle ELSE sidebarTitle
        /\ feedbackBtn' = IF CountMessages(list) >= FeedbackThreshold
                          THEN [feedbackBtn EXCEPT !.disabled = FALSE]
                          ELSE feedbackBtn
        /\ statusIndicator' = UpdateStatus(statusIndicator, "Ready", "ready")
        /\ lastStep' = Step("sendResolved", "success", data, <<>>)

\* Lines 71-74: the else branch of the .then handler.
SendRefused(data) ==
    LET text == OrElse(data.error, <<"Failed to send message">>)
    IN  /\ messageInput' = [messageInput EXCEPT !.disabled = FALSE]
        /\ isWaitingForResponse' = FALSE
        /\ chatMessages' = ShowError(chatMessages, text)
        /\ statusIndicator' = UpdateStatus(statusIndicator, "Error", "error")
        /\ lastStep' = Step("sendResolved", "refused", data, text)
        /\ UNCHANGED <<chatTitle, sidebarTitle, feedbackBtn>>

\* a settled request issued again
Settle_Reissue(requests, i) == requests

\* A settled request leaves the requests in flight; nothing re-issues it.
Settle(requests, i) == RemoveAt(requests, i)

\* Lines 33-81: the promise chain of one message request runs.  A handler
\* that throws after lines 36-37 is followed by the .catch handler, with no
\* other handler in between.
ResolveSend(i, response) ==
    /\ i \in 1..Len(sendRequests)
    /\ CountErrors(chatMessages) < MaxErrors
    /\ sendRequests' = Settle(sendRequests, i)
    /\ IF response.type = "reject"
       THEN SendCaught(response.errorMessage, response)
       ELSE IF response.isNull
       THEN SendCaught(NullData, response)
       ELSE IF response.status = "success"
       THEN IF AddMessageThrows(response.message)
            THEN SendCaught(NotAString, response)
            ELSE SendSucceeded(sendRequests[i], response)
       ELSE SendRefused(response)
    /\ UNCHANGED <<currentConversationId, feedbackRequests, feedbackModal,
                   bodyModalOpen, recognition, recognizer, isRecording,
                   voiceIndicator, voiceBtn, submitTimers, fetchCount,
                   passCount>>
    /\ UNCHANGED <<downloadVars, signupVars, landingVars>>

----------------------------------------------------------------------------
(* requestFeedback and the feedback modal *)

\* Line 86: the early return of requestFeedback.
FeedbackBlocked ==
    \/ currentConversationId = NoConversation
    \/ feedbackBtn.disabled

\* Lines 85-91: a click on the feedback control.
RequestFeedback ==
    /\ IF FeedbackBlocked
       THEN /\ UNCHANGED <<lastStep, statusIndicator, feedbackBtn, feedbackRequests,
                           fetchCount, passCount>>
       ELSE /\ passCount.feedback < FeedbackBudget
            /\ statusIndicator' =
                   UpdateStatus(statusIndicator, "Generating feedback...", "loading")
            /\ feedbackBtn' = [feedbackBtn EXCEPT !.disabled = TRUE]
            /\ feedbackRequests' = feedbackRequests + 1
            /\ fetchCount' = [fetchCount EXCEPT !.feedback = @ + 1]
            /\ passCount' = [passCount EXCEPT !.feedback = @ + 1]
            /\ lastStep' = Step("feedback", "sent", NoData, <<>>)
    /\ UNCHANGED <<messageInput, isWaitingForResponse, currentConversationId,
                   chatMessages, chatTitle, sidebarTitle, sendRequests,
                   feedbackModal, bodyModalOpen, recognition, recognizer,
                   isRecording, voiceIndicator, voiceBtn, submitTimers>>
    /\ UNCHANGED <<downloadVars, signupVars, landingVars>>

\* showFeedbackModal throws a TypeError where it calls .replace on a feedback
\* value that is not a string.
ShowFeedbackModalThrows(feedback) == feedback = Undefined

\* How the promise chain of a feedback request ends, as SendOutcome.
FeedbackOutcome(response) ==
    IF response.type = "reject" THEN "rejected"
    ELSE IF response.isNull THEN "invalid"
    ELSE IF response.status = "success"
    THEN (IF ShowFeedbackModalThrows(response.feedback) THEN "threw"
          ELSE "success")
    ELSE "refused"

\* the .catch handler leaving the control disabled
FeedbackCaught_LeavesDisabled(errorMessage, response) ==
    LET text == <<"Error generating feedback: ">> \o errorMessage
    IN  /\ chatMessages' = ShowError(chatMessages, text)
        /\ statusIndicator' = UpdateStatus(statusIndicator, "Error", "error")
        /\ lastStep' = Step("feedbackResolved", FeedbackOutcome(response),
                            response, text)
        /\ UNCHANGED <<feedbackBtn, feedbackModal, bodyModalOpen>>

\* Lines 105-109: the .catch handler, as SendCaught.
FeedbackCaught(errorMessage, response) ==
    LET text == <<"Error generating feedback: ">> \o errorMessage
    IN  /\ feedbackBtn' = [feedbackBtn EXCEPT !.disabled = FALSE]
        /\ chatMessages' = ShowError(chatMessages, text)
        /\ statusIndicator' = UpdateStatus(statusIndicator, "Error", "error")
        /\ lastStep' = Step("feedbackResolved", FeedbackOutcome(response),
                            response, text)
        /\ UNCHANGED <<feedbackModal, bodyModalOpen>>

\* Lines 96-99 with showFeedbackModal (344-364), the feedback being a string.
FeedbackSucceeded(data) ==
    /\ feedbackBtn' = [feedbackBtn EXCEPT !.disabled = FALSE]
    /\ feedbackModal' =
           [active |-> TRUE, content |-> FormatFeedback(data.feedback)]
    /\ bodyModalOpen' = TRUE
    /\ statusIndicator' = UpdateStatus(statusIndicator, "Ready", "ready")
    /\ lastStep' = Step("feedbackResolved", "success", data, <<>>)
    /\ UNCHANGED chatMessages

\* Lines 100-103: the else branch of the .then handler.
FeedbackRefused(data) ==
    LET text == OrElse(data.error, <<"Failed to generate feedback">>)
    IN  /\ feedbackBtn' = [feedbackBtn EXCEPT !.disabled = FALSE]
        /\ chatMessages' = ShowError(chatMessages, text)
        /\ statusIndicator' = UpdateStatus(statusIndicator, "Error", "error")
        /\ lastStep' = Step("feedbackResolved", "refused", data, text)
        /\ UNCHANGED <<feedbackModal, bodyModalOpen>>

\* Lines 92-109: the promise chain of one feedback request runs.
ResolveFeedback(response) ==
    /\ feedbackRequests > 0
    /\ CountErrors(chatMessages) < MaxErrors
    /\ feedbackRequests' = feedbackRequests - 1
    /\ IF response.type = "reject"
       THEN FeedbackCaught(response.errorMessage, response)
       ELSE IF response.isNull
       THEN FeedbackCaught(NullData, response)
       ELSE IF response.status = "success"
       THEN IF ShowFeedbackModalThrows(response.feedback)
            THEN FeedbackCaught(NotAString, response)
            ELSE FeedbackSucceeded(response)
       ELSE FeedbackRefused(response)
    /\ UNCHANGED <<messageInput, isWaitingForResponse, currentConversationId,
                   chatTitle, sidebarTitle, sendRequests, recognition,
                   recognizer, isRecording, voiceIndicator, voiceBtn,
                   submitTimers, fetchCount, passCount>>
    /\ UNCHANGED <<downloadVars, signupVars, landingVars>>

\* the modal closed with the page left locked
CloseFeedbackModal_KeepsScrollLock ==
    /\ feedbackModal' = [feedbackModal EXCEPT !.active = FALSE]
    /\ UNCHANGED bodyModalOpen
    /\ lastStep' = Event
    /\ UNCHANGED <<messageInput, isWaitingForResponse, currentConversationId,
                   statusIndicator, chatMessages, chatTitle, sidebarTitle,
                   feedbackBtn, sendRequests, feedbackRequests, recognition,
                   recognizer, isRecording, voiceIndicator, voiceBtn,
                   submitTimers, fetchCount, passCount>>
    /\ UNCHANGED <<downloadVars, signupVars, landingVars>>

\* Lines 366-371: closeFeedbackModal, from either close control
\* (324-330) or called directly.
CloseFeedbackModal ==
    /\ feedbackModal' = [feedbackModal EXCEPT !.active = FALSE]
    /\ bodyModalOpen' = FALSE
    /\ lastStep' = Event
    /\ UNCHANGED <<messageInput, isWaitingForResponse, currentConversationId,
                   statusIndicator, chatMessages, chatTitle, sidebarTitle,
                   feedbackBtn, sendRequests, feedbackRequests, recognition,
                   recognizer, isRecording, voiceIndicator, voiceBtn,
                   submitTimers, fetchCount, passCount>>
    /\ UNCHANGED <<downloadVars, signupVars, landingVars>>

\* Lines 337-342: a click that reaches the document listener from a target
\* outside the modal content and outside the feedback control.
DocumentClickOutside ==
    /\ IF feedbackModal.active
       THEN /\ feedbackModal' = [feedbackModal EXCEPT !.active = FALSE]
            /\ bodyModalOpen' = FALSE
            /\ lastStep' = Event
       ELSE /\ lastStep' = Event
            /\ UNCHANGED <<feedbackModal, bodyModalOpen>>
    /\ UNCHANGED <<messageInput, isWaitingForResponse, currentConversationId,
                   statusIndicator, chatMessages, chatTitle, sidebarTitle,
                   feedbackBtn, sendRequests, feedbackRequests, recognition,
                   recognizer, isRecording, voiceIndicator, voiceBtn,
                   submitTimers, fetchCount, passCount>>
    /\ UNCHANGED <<downloadVars, signupVars, landingVars>>

----------------------------------------------------------------------------
(* The error elements' timers and the input field *)

\* Lines 213-214: 5 s after showError the element gets the class 'fade-out'
\* and the removal timer is set.
ErrorFadeTimer(i) ==
    /\ i \in 1..Len(chatMessages)
    /\ chatMessages[i].cls = "error-message"
    /\ ~chatMessages[i].fadeOut
    /\ chatMessages' = [chatMessages EXCEPT ![i].fadeOut = TRUE]
    /\ lastStep' = Event
    /\ UNCHANGED <<messageInput, isWaitingForResponse, currentConversationId,
                   statusIndicator, chatTitle, sidebarTitle, feedbackBtn,
                   sendRequests, feedbackRequests, feedbackModal,
                   bodyModalOpen, recognition, recognizer, isRecording,
                   voiceIndicator, voiceBtn, submitTimers, fetchCount,
                   passCount>>
    /\ UNCHANGED <<downloadVars, signupVars, landingVars>>

\* Lines 215-219: 500 ms later the element is removed from the list.
ErrorRemoveTimer(i) ==
    /\ i \in 1..Len(chatMessages)
    /\ chatMessages[i].cls = "error-message"
    /\ chatMessages[i].fadeOut
    /\ chatMessages' = RemoveAt(chatMessages, i)
    /\ lastStep' = Event
    /\ UNCHANGED <<messageInput, isWaitingForResponse, currentConversationId,
                   statusIndicator, chatTitle, sidebarTitle, feedbackBtn,
                   sendRequests, feedbackRequests, feedbackModal,
                   bodyModalOpen, recognition, recognizer, isRecording,
                   voiceIndicator, voiceBtn, submitTimers, fetchCount,
                   passCount>>
    /\ UNCHANGED <<downloadVars, signupVars, landingVars>>

\* The user edits the input field, which a disabled field does not allow.
TypeText(text) ==
    /\ ~messageInput.disabled
    /\ messageInput' = [messageInput EXCEPT !.value = text]
    /\ lastStep' = Event
    /\ UNCHANGED <<isWaitingForResponse, currentConversationId,
                   statusIndicator, chatMessages, chatTitle, sidebarTitle,
                   feedbackBtn, sendRequests, feedbackRequests, feedbackModal,
                   bodyModalOpen, recognition, recognizer, isRecording,
                   voiceIndicator, voiceBtn, submitTimers, fetchCount,
                   passCount>>
    /\ UNCHANGED <<downloadVars, signupVars, landingVars>>

----------------------------------------------------------------------------
(* The voice capture adapter *)

\* The platform recognizer: start() takes it from "inactive" to "starting",
\* its start event to "listening", stop() to "stopping", an error event to
\* "ending"; its end event returns it to "inactive".
RecognizerStates == {"inactive", "starting", "listening", "stopping", "ending"}

ErrorCodes == {"not-allowed", "network"}

\* event.results of a result event: the top transcript of each result
ResultLists == {<<<<"a", SP, "b">>, <<SP, "c">>>>, <<Txt_blank>>}

RECURSIVE Concat(_)
Concat(list) == IF list = <<>> THEN <<>> ELSE Head(list) \o Concat(Tail(list))

\* the submit scheduled whatever the field holds
StopVoiceInputBody_AlwaysSubmits ==
    IF recognition = NoRecognition \/ ~isRecording
    THEN UNCHANGED <<recognizer, submitTimers>>
    ELSE /\ recognizer' = IF recognizer = "listening" THEN "stopping"
                          ELSE recognizer
         /\ submitTimers < TimerBudget
         /\ submitTimers' = submitTimers + 1

\* Lines 304-315: stopVoiceInput, all variables but lastStep.
StopVoiceInputBody ==
    IF recognition = NoRecognition \/ ~isRecording
    THEN UNCHANGED <<recognizer, submitTimers>>
    ELSE /\ recognizer' = IF recognizer = "listening" THEN "stopping"
                          ELSE recognizer
         /\ IF Trim(messageInput.value) # <<>>
            THEN /\ submitTimers < TimerBudget
                 /\ submitTimers' = submitTimers + 1
            ELSE UNCHANGED submitTimers

\* A click on the stop control (listener of line 241).
StopVoiceInput ==
    /\ recognition # NoRecognition
    /\ StopVoiceInputBody
    /\ lastStep' = Event
    /\ UNCHANGED <<messageInput, isWaitingForResponse, currentConversationId,
                   statusIndicator, chatMessages, chatTitle, sidebarTitle,
                   feedbackBtn, sendRequests, feedbackRequests, feedbackModal,
                   bodyModalOpen, recognition, isRecording, voiceIndicator,
                   voiceBtn, fetchCount, passCount>>
    /\ UNCHANGED <<downloadVars, signupVars, landingVars>>

\* Lines 288-301: a click on the voice button (listener of line 237).
\* recognition.start() throws unless the recognizer is inactive; the
\* exception is caught and logged.
ToggleVoiceInput ==
    /\ recognition # NoRecognition
    /\ IF ~isRecording
       THEN /\ recognizer' = IF recognizer = "inactive" THEN "starting"
                             ELSE recognizer
            /\ lastStep' = Event
            /\ UNCHANGED submitTimers
       ELSE /\ StopVoiceInputBody
            /\ lastStep' = Event
    /\ UNCHANGED <<messageInput, isWaitingForResponse, currentConversationId,
                   statusIndicator, chatMessages, chatTitle, sidebarTitle,
                   feedbackBtn, sendRequests, feedbackRequests, feedbackModal,
                   bodyModalOpen, recognition, isRecording, voiceIndicator,
                   voiceBtn, fetchCount, passCount>>
    /\ UNCHANGED <<downloadVars, signupVars, landingVars>>

\* Lines 245-249: recognition.onstart.
OnStart ==
    /\ recognizer = "starting"
    /\ recognizer' = "listening"
    /\ isRecording' = TRUE
    /\ voiceIndicator' = [voiceIndicator EXCEPT !.active = TRUE]
    /\ voiceBtn' = [voiceBtn EXCEPT !.active = TRUE]
    /\ lastStep' = Event
    /\ UNCHANGED <<messageInput, isWaitingForResponse, currentConversationId,
                   statusIndicator, chatMessages, chatTitle, sidebarTitle,
                   feedbackBtn, sendRequests, feedbackRequests, feedbackModal,
                   bodyModalOpen, recognition, submitTimers, fetchCount,
                   passCount>>
    /\ UNCHANGED <<downloadVars, signupVars, landingVars>>

\* Lines 251-255: recognition.onend, after a stop, an error, or the
\* recognizer ending on its own.
OnEnd ==
    /\ recognizer \in {"listening", "stopping", "ending"}
    /\ recognizer' = "inactive"
    /\ isRecording' = FALSE
    /\ voiceIndicator' = [voiceIndicator EXCEPT !.active = FALSE]
    /\ voiceBtn' = [voiceBtn EXCEPT !.active = FALSE]
    /\ lastStep' = Event
    /\ UNCHANGED <<messageInput, isWaitingForResponse, currentConversationId,
                   statusIndicator, chatMessages, chatTitle, sidebarTitle,
                   feedbackBtn, sendRequests, feedbackRequests, feedbackModal,
                   bodyModalOpen, recognition, submitTimers, fetchCount,
                   passCount>>
    /\ UNCHANGED <<downloadVars, signupVars, landingVars>>

\* the transcript appended to the text of the field
OnResult_Appends(results) ==
    /\ recognizer \in {"listening", "stopping"}
    /\ messageInput' = [messageInput EXCEPT !.value = @ \o Concat(results)]
    /\ lastStep' = Event
    /\ UNCHANGED <<isWaitingForResponse, currentConversationId,
                   statusIndicator, chatMessages, chatTitle, sidebarTitle,
                   feedbackBtn, sendRequests, feedbackRequests, feedbackModal,
                   bodyModalOpen, recognition, recognizer, isRecording,
                   voiceIndicator, voiceBtn, submitTimers, fetchCount,
                   passCount>>
    /\ UNCHANGED <<downloadVars, signupVars, landingVars>>

\* Lines 257-266: recognition.onresult.
OnResult(results) ==
    /\ recognizer \in {"listening", "stopping"}
    /\ messageInput' = [messageInput EXCEPT !.value = Concat(results)]
    /\ lastStep' = Event
    /\ UNCHANGED <<isWaitingForResponse, currentConversationId,
                   statusIndicator, chatMessages, chatTitle, sidebarTitle,
                   feedbackBtn, sendRequests, feedbackRequests, feedbackModal,
                   bodyModalOpen, recognition, recognizer, isRecording,
                   voiceIndicator, voiceBtn, submitTimers, fetchCount,
                   passCount>>
    /\ UNCHANGED <<downloadVars, signupVars, landingVars>>

\* the error handler leaving the indicators as they are
OnError_KeepsIndicators(code) ==
    LET text ==
            IF code = "not-allowed"
            THEN <<"Microphone access denied. Please check your browser permissions.">>
            ELSE <<"Voice recognition error: ", code>>
    IN  /\ recognizer \in {"starting", "listening", "stopping"}
        /\ CountErrors(chatMessages) < MaxErrors
        /\ recognizer' = "ending"
        /\ chatMessages' = ShowError(chatMessages, text)
        /\ isRecording' = FALSE
        /\ UNCHANGED <<voiceIndicator, voiceBtn>>
        /\ lastStep' = Step("recognitionError", code, NoData, text)
    /\ UNCHANGED <<messageInput, isWaitingForResponse, currentConversationId,
                   statusIndicator, chatTitle, sidebarTitle, feedbackBtn,
                   sendRequests, feedbackRequests, feedbackModal,
                   bodyModalOpen, recognition, submitTimers, fetchCount,
                   passCount>>
    /\ UNCHANGED <<downloadVars, signupVars, landingVars>>

\* every error code shown by the generic message
OnError_OneMessage(code) ==
    LET text ==
            <<"Voice recognition error: ", code>>
    IN  /\ recognizer \in {"starting", "listening", "stopping"}
        /\ CountErrors(chatMessages) < MaxErrors
        /\ recognizer' = "ending"
        /\ chatMessages' = ShowError(chatMessages, text)
        /\ isRecording' = FALSE
        /\ voiceIndicator' = [voiceIndicator EXCEPT !.active = FALSE]
        /\ voiceBtn' = [voiceBtn EXCEPT !.active = FALSE]
        /\ lastStep' = Step("recognitionError", code, NoData, text)
    /\ UNCHANGED <<messageInput, isWaitingForResponse, currentConversationId,
                   statusIndicator, chatTitle, sidebarTitle, feedbackBtn,
                   sendRequests, feedbackRequests, feedbackModal,
                   bodyModalOpen, recognition, submitTimers, fetchCount,
                   passCount>>
    /\ UNCHANGED <<downloadVars, signupVars, landingVars>>

\* Lines 268-278: recognition.onerror; the recognizer's end event follows.
OnError(code) ==
    LET text ==
            IF code = "not-allowed"
            THEN <<"Microphone access denied. Please check your browser permissions.">>
            ELSE <<"Voice recognition error: ", code>>
    IN  /\ recognizer \in {"starting", "listening", "stopping"}
        /\ CountErrors(chatMessages) < MaxErrors
        /\ recognizer' = "ending"
        /\ chatMessages' = ShowError(chatMessages, text)
        /\ isRecording' = FALSE
        /\ voiceIndicator' = [voiceIndicator EXCEPT !.active = FALSE]
        /\ voiceBtn' = [voiceBtn EXCEPT !.active = FALSE]
        /\ lastStep' = Step("recognitionError", code, NoData, text)
    /\ UNCHANGED <<messageInput, isWaitingForResponse, currentConversationId,
                   statusIndicator, chatTitle, sidebarTitle, feedbackBtn,
                   sendRequests, feedbackRequests, feedbackModal,
                   bodyModalOpen, recognition, submitTimers, fetchCount,
                   passCount>>
    /\ UNCHANGED <<downloadVars, signupVars, landingVars>>

\* Lines 311-313: an auto-submit timer fires and dispatches a submit event.
VoiceSubmitTimer ==
    /\ submitTimers > 0
    /\ submitTimers' = submitTimers - 1
    /\ HandleSendMessage
    /\ UNCHANGED <<downloadVars, signupVars, landingVars>>

----------------------------------------------------------------------------
(* downloadFeedback *)

\* What the element shows as text: innerText, in which a <br> and the end of
\* a heading or of a list item are line breaks and the other tags are nothing.
RECURSIVE InnerText(_)
InnerText(html) ==
    IF html = <<>> THEN <<>>
    ELSE IF Head(html) \in {"<br>", "</h3>", "</li>"}
    THEN <<NL>> \o InnerText(Tail(html))
    ELSE IF Head(html) \in HtmlTags THEN InnerText(Tail(html))
    ELSE <<Head(html)>> \o InnerText(Tail(html))

\* String.prototype.slice(0, n)
Slice(text, n) == SubSeq(text, 1, IF Len(text) < n THEN Len(text) ELSE n)

\* Line 387: `sales-feedback-${date}.txt`
FileName(date) ==
    <<"s","a","l","e","s","-","f","e","e","d","b","a","c","k","-">>
        \o date \o <<".", "t", "x", "t">>

\* Lines 373-397 up to the timer: the n-th call of downloadFeedback makes the
\* blob URL n and the anchor n, saves the file and sets the clean-up timer n.
DownloadFeedback ==
    LET n == Len(savedFiles) + 1
        plainText == OrElse(InnerText(feedbackModal.content),
                            TextContent(feedbackModal.content))
        date == Slice(Now, 10)
    IN  /\ n <= MaxDownloads
        /\ objectURLs' = objectURLs \cup {n}
        /\ bodyAnchors' = bodyAnchors \cup {n}
        /\ savedFiles' = Append(savedFiles,
                                [href |-> n, download |-> FileName(date),
                                 text |-> plainText])
        /\ cleanupTimers' = cleanupTimers \cup {n}
        /\ lastStep' = Event
        /\ UNCHANGED <<chatVars, signupVars,
                   landingVars>>

\* the clean-up that removes the anchor and leaves the URL alive
DownloadCleanupTimer_KeepsURL(n) ==
    /\ n \in cleanupTimers
    /\ cleanupTimers' = cleanupTimers \ {n}
    /\ bodyAnchors' = bodyAnchors \ {n}
    /\ lastStep' = Event
    /\ UNCHANGED <<objectURLs, savedFiles, chatVars, signupVars,
                   landingVars>>

\* Lines 393-396: the clean-up timer of the n-th download fires.
DownloadCleanupTimer(n) ==
    /\ n \in cleanupTimers
    /\ cleanupTimers' = cleanupTimers \ {n}
    /\ bodyAnchors' = bodyAnchors \ {n}
    /\ objectURLs' = objectURLs \ {n}
    /\ lastStep' = Event
    /\ UNCHANGED <<savedFiles, chatVars, signupVars,
                   landingVars>>

\* The chat page before any download.
DownloadInit ==
    /\ objectURLs = {}
    /\ bodyAnchors = {}
    /\ cleanupTimers = {}
    /\ savedFiles = <<>>

----------------------------------------------------------------------------
(* The signup page (templates/signup.html) *)

\* The character classes of the regular expressions of lines 223-226.
UpperCase ==
    {"A","B","C","D","E","F","G","H","I","J","K","L","M",
     "N","O","P","Q","R","S","T","U","V","W","X","Y","Z"}

LowerCase ==
    {"a","b","c","d","e","f","g","h","i","j","k","l","m",
     "n","o","p","q","r","s","t","u","v","w","x","y","z"}

Digits == {"0","1","2","3","4","5","6","7","8","9"}

\* RegExp.prototype.test for a one-character class
Test(class, password) == \E i \in 1..Len(password) : password[i] \in class

\* /[^A-Za-z0-9]/.test(password)
TestOther(password) ==
    \E i \in 1..Len(password) :
        password[i] \notin UpperCase \cup LowerCase \cup Digits

\* Lines 216-226: the score of a password.
Strength(password) ==
    (IF Len(password) >= 8 THEN 1 ELSE 0)
    + (IF Len(password) >= 12 THEN 1 ELSE 0)
    + (IF Test(UpperCase, password) THEN 1 ELSE 0)
    + (IF Test(LowerCase, password) THEN 1 ELSE 0)
    + (IF Test(Digits, password) THEN 1 ELSE 0)
    + (IF TestOther(password) THEN 1 ELSE 0)

\* the bucket 'Medium' from a score of 4
StrengthLevel_MediumFromFour(strength) ==
    IF strength >= 5 THEN [level |-> "Strong", class |-> "strong"]
    ELSE IF strength >= 4 THEN [level |-> "Medium", class |-> "medium"]
    ELSE [level |-> "Weak", class |-> "weak"]

\* Lines 229-238: strengthLevel and strengthClass.
StrengthLevel(strength) ==
    IF strength >= 5 THEN [level |-> "Strong", class |-> "strong"]
    ELSE IF strength >= 3 THEN [level |-> "Medium", class |-> "medium"]
    ELSE [level |-> "Weak", class |-> "weak"]

\* Lines 244-254: the class added to the segment of an index, "" for none.
SegmentClass(index, strength) ==
    LET strengthClass == StrengthLevel(strength).class
    IN  IF index = 0 /\ strength >= 1
        THEN IF strength >= 3 THEN strengthClass ELSE "weak"
        ELSE IF index = 1 /\ strength >= 3
        THEN IF strength >= 5 THEN strengthClass ELSE "medium"
        ELSE IF index = 2 /\ strength >= 5
        THEN "strong"
        ELSE ""

\* Lines 215-255: checkPasswordStrength, as the state of the meter it leaves.
CheckPasswordStrength(password) ==
    [text |-> StrengthLevel(Strength(password)).level,
     segments |-> [i \in 1..3 |-> SegmentClass(i - 1, Strength(password))]]

SignupPage == <<"/signup">>
CreateAccount == <<"Create Account">>
Spinner == <<"<i class=\"fas fa-spinner fa-spin\"></i> Creating account...">>

Msg_fill == <<"Please fill out all fields">>
Msg_match == <<"Passwords do not match">>
Msg_length == <<"Password must be at least 8 characters long">>
Msg_agree == <<"You must agree to the Terms of Service and Privacy Policy">>
Msg_failed == <<"Account creation failed. Please try again.">>
Msg_network == <<"A network error occurred. Please try again.">>

\* Lines 257-271: showError of the signup page, which shows the message and
\* sets the timer that ends the highlight animation.
ShowSignupError(message) ==
    /\ shakeTimers < MaxShakeTimers
    /\ signupError' = [display |-> "block", textContent |-> message,
                       shake |-> TRUE]
    /\ shakeTimers' = shakeTimers + 1

\* Lines 264-266: a timer of showError fires and removes the class 'shake'.
ShakeTimer ==
    /\ location = SignupPage
    /\ shakeTimers > 0
    /\ shakeTimers' = shakeTimers - 1
    /\ signupError' = [signupError EXCEPT !.shake = FALSE]
    /\ lastStep' = Event
    /\ UNCHANGED <<signupForm, passwordFields, strengthMeter, submitButton,
                   registerRequest, registerCount, location, chatVars,
                   downloadVars, landingVars>>

\* The user edits the name, the email or the confirmation.
EditField(field, text) ==
    /\ location = SignupPage
    /\ field \in {"name", "email", "confirmPassword"}
    /\ signupForm' = [signupForm EXCEPT ![field] = text]
    /\ lastStep' = Event
    /\ UNCHANGED <<passwordFields, strengthMeter, signupError, submitButton,
                   registerRequest, registerCount, shakeTimers, location,
                   chatVars, downloadVars, landingVars>>

\* The user ticks or clears the agreement checkbox.
ToggleAgree ==
    /\ location = SignupPage
    /\ signupForm' = [signupForm EXCEPT !.agree = ~@]
    /\ lastStep' = Event
    /\ UNCHANGED <<passwordFields, strengthMeter, signupError, submitButton,
                   registerRequest, registerCount, shakeTimers, location,
                   chatVars, downloadVars, landingVars>>

\* Lines 134-138: the user edits the password; the input listener runs
\* checkPasswordStrength on the new value.
PasswordInput(password) ==
    /\ location = SignupPage
    /\ signupForm' = [signupForm EXCEPT !.password = password]
    /\ strengthMeter' = CheckPasswordStrength(password)
    /\ lastStep' = Event
    /\ UNCHANGED <<passwordFields, signupError, submitButton,
                   registerRequest, registerCount, shakeTimers, location,
                   chatVars, downloadVars, landingVars>>

\* Lines 120-131: a click on the visibility toggle.
PasswordToggle ==
    /\ location = SignupPage
    /\ passwordFields' =
           [type |-> IF passwordFields.type = "password" THEN "text"
                     ELSE "password",
            icon |-> IF "fa-eye" \in passwordFields.icon
                     THEN {"fa-eye-slash"} ELSE {"fa-eye"}]
    /\ lastStep' = Event
    /\ UNCHANGED <<signupForm, strengthMeter, signupError, submitButton,
                   registerRequest, registerCount, shakeTimers, location,
                   chatVars, downloadVars, landingVars>>

\* the validation without the agreement check
ValidationError_SkipsAgreement(form) ==
    IF \/ form.name = <<>> \/ form.email = <<>>
       \/ form.password = <<>> \/ form.confirmPassword = <<>>
    THEN Msg_fill
    ELSE IF form.password # form.confirmPassword THEN Msg_match
    ELSE IF Len(form.password) < 8 THEN Msg_length
    ELSE <<>>

\* Lines 153-171: the message of the first check that fails, <<>> if none.
ValidationError(form) ==
    IF \/ form.name = <<>> \/ form.email = <<>>
       \/ form.password = <<>> \/ form.confirmPassword = <<>>
    THEN Msg_fill
    ELSE IF form.password # form.confirmPassword THEN Msg_match
    ELSE IF Len(form.password) < 8 THEN Msg_length
    ELSE IF ~form.agree THEN Msg_agree
    ELSE <<>>

\* Lines 142-188 up to the await: a submit event of the signup form, which
\* the form's button, while enabled, lets the user cause.
SignupSubmit ==
    /\ location = SignupPage
    /\ ~submitButton.disabled
    /\ IF ValidationError(signupForm) # <<>>
       THEN /\ ShowSignupError(ValidationError(signupForm))
            /\ lastStep' = Step("signupSubmit", "invalid", NoData,
                                ValidationError(signupForm))
            /\ UNCHANGED <<submitButton, registerRequest, registerCount>>
       ELSE /\ registerCount < MaxRegistrations
            /\ submitButton' = [disabled |-> TRUE, innerHTML |-> Spinner]
            /\ registerRequest' =
                   <<[name |-> signupForm.name, email |-> signupForm.email,
                      password |-> signupForm.password,
                      originalText |-> submitButton.innerHTML]>>
            /\ registerCount' = registerCount + 1
            /\ lastStep' = Step("signupSubmit", "sent", NoData, <<>>)
            /\ UNCHANGED <<signupError, shakeTimers>>
    /\ UNCHANGED <<signupForm, passwordFields, strengthMeter, location,
                   chatVars, downloadVars, landingVars>>

\* What the registration endpoint can answer: the fetch is rejected, or a
\* response arrives whose body is not JSON, is null, or is an object.
RegisterRejected ==
    [type |-> "reject", ok |-> FALSE,
     body |-> [kind |-> "none", redirect |-> Undefined, error |-> Undefined]]

RegisterResponse(ok, body) == [type |-> "response", ok |-> ok, body |-> body]

\* a body: what response.json() makes of it ("not-json" where it rejects,
\* "null", or an "object" with its fields redirect and error)
RegisterBody(kind, redirect, error) ==
    [kind |-> kind, redirect |-> redirect, error |-> error]

RegisterBodies ==
    {RegisterBody("not-json", Undefined, Undefined),
     RegisterBody("null", Undefined, Undefined),
     RegisterBody("object", Undefined, Undefined),
     RegisterBody("object", <<"/welcome">>, Undefined),
     RegisterBody("object", Undefined, <<"Email already registered">>)}

RegisterResponses ==
    {RegisterRejected}
        \cup {RegisterResponse(ok, body) :
                  ok \in BOOLEAN, body \in RegisterBodies}

\* Lines 203-211: the catch block.
RegisterCaught ==
    /\ ShowSignupError(Msg_network)
    /\ submitButton' = [disabled |-> FALSE, innerHTML |-> CreateAccount]
    /\ UNCHANGED location

\* Lines 190-202: the handler resumes after the awaits.
ResolveRegister(response) ==
    /\ location = SignupPage
    /\ registerRequest # <<>>
    /\ registerRequest' = <<>>
    /\ IF response.type = "reject" \/ response.body.kind = "not-json"
       THEN RegisterCaught
       ELSE IF response.body.kind = "null"
       THEN RegisterCaught
       ELSE /\ submitButton' =
                   [disabled |-> FALSE,
                    innerHTML |-> registerRequest[1].originalText]
            /\ IF response.ok
               THEN /\ location' = OrElse(response.body.redirect,
                                          <<"/dashboard">>)
                    /\ UNCHANGED <<signupError, shakeTimers>>
               ELSE /\ ShowSignupError(OrElse(response.body.error, Msg_failed))
                    /\ UNCHANGED location
    /\ lastStep' = Event
    /\ UNCHANGED <<signupForm, passwordFields, strengthMeter, registerCount,
                   chatVars, downloadVars, landingVars>>

\* The signup page as the template renders it.
SignupInit ==
    /\ signupForm = [name |-> <<>>, email |-> <<>>, password |-> <<>>,
                     confirmPassword |-> <<>>, agree |-> FALSE]
    /\ passwordFields = [type |-> "password", icon |-> {"fa-eye"}]
    /\ strengthMeter = [text |-> "Weak", segments |-> [i \in 1..3 |-> ""]]
    /\ signupError = [display |-> "none", textContent |-> <<>>,
                      shake |-> FALSE]
    /\ submitButton = [disabled |-> FALSE, innerHTML |-> CreateAccount]
    /\ registerRequest = <<>>
    /\ registerCount = 0
    /\ shakeTimers = 0
    /\ location = SignupPage

----------------------------------------------------------------------------
(* The landing page (templates/landing.html) *)

\* testimonials.length: the template has three testimonials and three dots
Testimonials == 3

\* Lines 269-286: showTestimonial, all variables of the carousel it writes.
ShowTestimonial(index) ==
    /\ activeTestimonials' = {index}
    /\ activeDots' = {index}
    /\ currentIndex' = index

\* Lines 290-294: a click on the previous button.
PrevClick ==
    LET newIndex == IF currentIndex - 1 < 0 THEN Testimonials - 1
                    ELSE currentIndex - 1
    IN  /\ ShowTestimonial(newIndex)
        /\ lastStep' = Event
        /\ UNCHANGED <<carouselInterval, liveIntervals, intervalCount,
                       carouselHover, chatVars, downloadVars, signupVars>>

\* Lines 299-303: a click on the next button.
NextClick ==
    LET newIndex == IF currentIndex + 1 >= Testimonials THEN 0
                    ELSE currentIndex + 1
    IN  /\ ShowTestimonial(newIndex)
        /\ lastStep' = Event
        /\ UNCHANGED <<carouselInterval, liveIntervals, intervalCount,
                       carouselHover, chatVars, downloadVars, signupVars>>

\* Lines 307-311: a click on the dot of an index.
DotClick(index) ==
    /\ index \in 0..(Testimonials - 1)
    /\ ShowTestimonial(index)
    /\ lastStep' = Event
    /\ UNCHANGED <<carouselInterval, liveIntervals, intervalCount,
                   carouselHover, chatVars, downloadVars, signupVars>>

\* Lines 314-318 and 328-332: a live interval timer fires; both callbacks
\* advance the carousel by one.
AutoAdvance(id) ==
    LET newIndex == IF currentIndex + 1 >= Testimonials THEN 0
                    ELSE currentIndex + 1
    IN  /\ id \in liveIntervals
        /\ ShowTestimonial(newIndex)
        /\ lastStep' = Step("autoAdvance", "", NoData, <<>>)
        /\ UNCHANGED <<carouselInterval, liveIntervals, intervalCount,
                       carouselHover, chatVars, downloadVars, signupVars>>

\* Lines 323-325: mouseenter clears the timer whose id carouselInterval
\* holds; clearInterval of an id that is not live does nothing.
MouseEnter ==
    /\ liveIntervals' = liveIntervals \ {carouselInterval}
    /\ carouselHover' = "mouseenter"
    /\ lastStep' = Event
    /\ UNCHANGED <<currentIndex, activeTestimonials, activeDots,
                   carouselInterval, intervalCount, chatVars, downloadVars,
                   signupVars>>

\* Lines 327-333: mouseleave sets a new interval timer and stores its id.
MouseLeave ==
    /\ intervalCount < MaxIntervals
    /\ intervalCount' = intervalCount + 1
    /\ carouselInterval' = intervalCount + 1
    /\ liveIntervals' = liveIntervals \cup {intervalCount + 1}
    /\ carouselHover' = "mouseleave"
    /\ lastStep' = Event
    /\ UNCHANGED <<currentIndex, activeTestimonials, activeDots, chatVars,
                   downloadVars, signupVars>>

\* Lines 262-266 and 314: the landing page once its script has run, the
\* first interval timer set.
LandingInit ==
    /\ currentIndex = 0
    /\ activeTestimonials = {0}
    /\ activeDots = {0}
    /\ carouselInterval = 1
    /\ liveIntervals = {1}
    /\ intervalCount = 1
    /\ carouselHover = "none"

----------------------------------------------------------------------------
(* The specification *)

Init ==
    /\ recognition \in {NoRecognition, "recognition"}
    /\ messageInput = [value |-> <<>>, disabled |-> FALSE]
    /\ isWaitingForResponse = FALSE
    /\ currentConversationId \in {NoConversation, "c1"}
    /\ statusIndicator = [classList |-> {"ready"}, innerHTML |-> <<"ready", "Ready">>]
    /\ chatMessages = <<>>
    /\ chatTitle = NewConversation
    /\ sidebarTitle \in {NoSidebarItem, NewConversation}
    /\ recognition # NoRecognition => sidebarTitle = NewConversation
    /\ feedbackBtn = [disabled |-> TRUE]
    /\ sendRequests = <<>>
    /\ feedbackRequests = 0
    /\ feedbackModal = [active |-> FALSE, content |-> <<>>]
    /\ bodyModalOpen = FALSE
    /\ recognizer = "inactive"
    /\ isRecording = FALSE
    /\ voiceIndicator = [active |-> FALSE]
    /\ voiceBtn = [active |-> FALSE]
    /\ submitTimers = 0
    /\ fetchCount = [message |-> 0, feedback |-> 0]
    /\ passCount = [message |-> 0, feedback |-> 0]
    /\ lastStep = Event
    /\ DownloadInit
    /\ SignupInit
    /\ LandingInit

Next ==
    \/ \E text \in InputTexts : TypeText(text)
    \/ SubmitForm
    \/ \E i \in 1..Len(sendRequests), response \in SendResponses :
           ResolveSend(i, response)
    \/ RequestFeedback
    \/ \E response \in FeedbackResponses : ResolveFeedback(response)
    \/ CloseFeedbackModal
    \/ DocumentClickOutside
    \/ \E i \in 1..Len(chatMessages) : ErrorFadeTimer(i)
    \/ \E i \in 1..Len(chatMessages) : ErrorRemoveTimer(i)
    \/ ToggleVoiceInput
    \/ StopVoiceInput
    \/ OnStart
    \/ OnEnd
    \/ \E results \in ResultLists : OnResult(results)
    \/ \E code \in ErrorCodes : OnError(code)
    \/ VoiceSubmitTimer

Spec == Init /\ [][Next]_vars

\* The page with a recognizer, its feedback control left alone.
InitVoice == Init /\ recognition # NoRecognition

\* what the server answers on the page with a recognizer
VoiceResponses ==
    {Rejected,
     JsonSuccess(Message("assistant", Txt_reply, ServerTime), Undefined)}

NextVoice ==
    \/ \E text \in InputTexts : TypeText(text)
    \/ SubmitForm
    \/ \E i \in 1..Len(sendRequests), response \in VoiceResponses :
           ResolveSend(i, response)
    \/ \E i \in 1..Len(chatMessages) : ErrorFadeTimer(i)
    \/ \E i \in 1..Len(chatMessages) : ErrorRemoveTimer(i)
    \/ ToggleVoiceInput
    \/ StopVoiceInput
    \/ OnStart
    \/ OnEnd
    \/ \E results \in ResultLists : OnResult(results)
    \/ \E code \in ErrorCodes : OnError(code)
    \/ VoiceSubmitTimer

\* The recognizer delivers its end event: once it is listening, stopping or
\* ending, the event is not withheld for ever. A timer set by setTimeout
\* (line 311) fires: its callback is not postponed for ever.
SpecVoice ==
    InitVoice /\ [][NextVoice]_vars /\ WF_vars(OnEnd) /\ WF_vars(VoiceSubmitTimer)

TypeOK ==
    /\ messageInput.disabled \in BOOLEAN
    /\ isWaitingForResponse \in BOOLEAN
    /\ feedbackRequests \in Nat
    /\ recognizer \in RecognizerStates
    /\ submitTimers \in 0..TimerBudget
    /\ statusIndicator.classList \subseteq StateMarkers

----------------------------------------------------------------------------
(* The title derivation on its own: one message, of any enumerated text, is *)
(* submitted and answered.                                                  *)

TitleAlphabet == {"a", SP, TAB}

LongTexts ==
    {<<"a", SP, "b", SP, "c", SP, "d", SP, "e", SP, "f">>,
     <<"a", SP, SP, "b", SP, "c", SP, "d", SP, "e", SP, "f">>,
     <<"a", TAB, "b", TAB, "c">>,
     <<"a", NL, "b", SP, "c">>}

TitleTexts ==
    UNION {[1..n -> TitleAlphabet] : n \in 0..MaxLen} \cup LongTexts

InitTitle ==
    /\ recognition = NoRecognition
    /\ messageInput \in [value : TitleTexts, disabled : {FALSE}]
    /\ isWaitingForResponse = FALSE
    /\ currentConversationId = "c1"
    /\ statusIndicator = [classList |-> {"ready"}, innerHTML |-> <<"ready", "Ready">>]
    /\ chatMessages = <<>>
    /\ chatTitle = NewConversation
    /\ sidebarTitle = NewConversation
    /\ feedbackBtn = [disabled |-> TRUE]
    /\ sendRequests = <<>>
    /\ feedbackRequests = 0
    /\ feedbackModal = [active |-> FALSE, content |-> <<>>]
    /\ bodyModalOpen = FALSE
    /\ recognizer = "inactive"
    /\ isRecording = FALSE
    /\ voiceIndicator = [active |-> FALSE]
    /\ voiceBtn = [active |-> FALSE]
    /\ submitTimers = 0
    /\ fetchCount = [message |-> 0, feedback |-> 0]
    /\ passCount = [message |-> 0, feedback |-> 0]
    /\ lastStep = Event
    /\ DownloadInit
    /\ SignupInit
    /\ LandingInit

NextTitle ==
    \/ SubmitForm
    \/ \E i \in 1..Len(sendRequests), response \in SendResponses :
           ResolveSend(i, response)

SpecTitle == InitTitle /\ [][NextTitle]_vars

----------------------------------------------------------------------------
(* The renderer on its own: the first message of a conversation is any of   *)
(* the enumerated texts and is answered by any of the enumerated replies;   *)
(* the exchanges after it are plain and lead to a feedback request, which   *)
(* is answered with any of the enumerated feedback texts.                   *)

\* '### Title\n- a\n- b\n\nEnd', title and last line one letter long
Txt_example ==
    <<"#", "#", "#", SP, "T", NL, "-", SP, "a", NL, "-", SP, "b", NL, NL, "E">>

Txt_bold == <<"<b>", "x", "</b>">>
Txt_soon == <<"s", "o", "o", "n">>

MarkupPieces ==
    {HeaderMark, HeaderTail, BulletMark, <<"a">>, <<NL>>, <<"<li>">>, <<"</li>">>}

\* the texts made of fewer than MaxLen pieces of markup, and the example
MarkupTexts ==
    {Concat(l) : l \in UNION {[1..n -> MarkupPieces] : n \in 0..(MaxLen - 1)}}
        \cup {Txt_example}

UserTexts == {Txt_abc, Txt_example, Txt_bold, <<"-", SP, "a">>}

\* message.timestamp of a reply: ISO-8601, another text, or missing
Timestamps == {ServerTime, Txt_soon, Undefined}

RenderReplies ==
    {Message("assistant", c, ServerTime) : c \in MarkupTexts}
        \cup {Message("assistant", Txt_reply, t) : t \in Timestamps}
        \cup {Message("user", c, ServerTime) : c \in UserTexts}

FeedbackTexts ==
    {Txt_reply, Txt_example, <<"-", SP, "a", NL, NL, "-", SP, "b">>,
     <<"<li>", NL, "</li>">>, <<"<li>", "a", "</li>", NL, "b">>,
     <<"a", SP, "-", SP, "b">>}

InitRender ==
    /\ recognition = NoRecognition
    /\ messageInput \in [value : UserTexts, disabled : {FALSE}]
    /\ isWaitingForResponse = FALSE
    /\ currentConversationId = "c1"
    /\ statusIndicator = [classList |-> {"ready"}, innerHTML |-> <<"ready", "Ready">>]
    /\ chatMessages = <<>>
    /\ chatTitle = NewConversation
    /\ sidebarTitle = NewConversation
    /\ feedbackBtn = [disabled |-> TRUE]
    /\ sendRequests = <<>>
    /\ feedbackRequests = 0
    /\ feedbackModal = [active |-> FALSE, content |-> <<>>]
    /\ bodyModalOpen = FALSE
    /\ recognizer = "inactive"
    /\ isRecording = FALSE
    /\ voiceIndicator = [active |-> FALSE]
    /\ voiceBtn = [active |-> FALSE]
    /\ submitTimers = 0
    /\ fetchCount = [message |-> 0, feedback |-> 0]
    /\ passCount = [message |-> 0, feedback |-> 0]
    /\ lastStep = Event
    /\ DownloadInit
    /\ SignupInit
    /\ LandingInit

NextRender ==
    \/ TypeText(Txt_abc)
    \/ SubmitForm
    \/ \E i \in 1..Len(sendRequests),
          message \in IF CountMessages(chatMessages) < 2 THEN RenderReplies
                      ELSE {Message("assistant", Txt_reply, ServerTime)} :
           ResolveSend(i, JsonSuccess(message, Undefined))
    \/ RequestFeedback
    \/ \E feedback \in FeedbackTexts :
           ResolveFeedback(JsonSuccess(NullMessage, feedback))

SpecRender == InitRender /\ [][NextRender]_vars

----------------------------------------------------------------------------
(* The feedback download on its own: a conversation, its feedback and the   *)
(* downloads of what the modal shows.                                       *)

InitDownload ==
    /\ Init
    /\ recognition = NoRecognition
    /\ currentConversationId = "c1"
    /\ sidebarTitle = NewConversation

NextDownload ==
    \/ TypeText(Txt_abc)
    \/ SubmitForm
    \/ \E i \in 1..Len(sendRequests) :
           ResolveSend(i, JsonSuccess(Message("assistant", Txt_reply,
                                              ServerTime), Undefined))
    \/ RequestFeedback
    \/ \E feedback \in {Txt_reply, Txt_example} :
           ResolveFeedback(JsonSuccess(NullMessage, feedback))
    \/ CloseFeedbackModal
    \/ DownloadFeedback
    \/ \E n \in 1..MaxDownloads : DownloadCleanupTimer(n)

\* A timer set by setTimeout (line 393) fires.
SpecDownload ==
    /\ InitDownload
    /\ [][NextDownload]_vars
    /\ \A n \in 1..MaxDownloads : WF_vars(DownloadCleanupTimer(n))

----------------------------------------------------------------------------
(* The signup page *)

Pw_abc == <<"a", "b", "c">>
Pw_Abcdefgh1 == <<"A", "b", "c", "d", "e", "f", "g", "h", "1">>
Pw_Ab1 == <<"A", "b", "1", "!", "A", "b", "1", "!", "A", "b", "1", "!">>

FormPasswords == {<<>>, Pw_abc, Pw_Abcdefgh1}
FormNames == {<<>>, <<"Ann">>}
FormEmails == {<<>>, <<"ann@example.com">>}

InitSignup ==
    /\ Init
    /\ recognition = NoRecognition
    /\ currentConversationId = NoConversation
    /\ sidebarTitle = NoSidebarItem

NextSignup ==
    \/ \E text \in FormNames : EditField("name", text)
    \/ \E text \in FormEmails : EditField("email", text)
    \/ \E text \in FormPasswords : EditField("confirmPassword", text)
    \/ \E password \in FormPasswords : PasswordInput(password)
    \/ ToggleAgree
    \/ PasswordToggle
    \/ SignupSubmit
    \/ \E response \in RegisterResponses : ResolveRegister(response)
    \/ ShakeTimer

\* A timer set by setTimeout (line 264) fires.
SpecSignup == InitSignup /\ [][NextSignup]_vars /\ WF_vars(ShakeTimer)

\* The strength meter on its own.  A password is a pattern of characters,
\* one of each class of a set of classes, repeated up to a length.
ClassSamples == <<"a", "A", "1", "!">>

Pattern(classes) == SelectSeq(ClassSamples, LAMBDA c : c \in classes)

Repeat(pattern, n) == [i \in 1..n |-> pattern[((i - 1) % Len(pattern)) + 1]]

Passwords ==
    {Repeat(Pattern(classes), n) :
        classes \in (SUBSET {"a", "A", "1", "!"}) \ {{}}, n \in 0..MaxPassword}
        \cup {Pw_abc, Pw_Abcdefgh1, Pw_Ab1}

InitStrength == InitSignup

NextStrength == \E password \in Passwords : PasswordInput(password)

SpecStrength == InitStrength /\ [][NextStrength]_vars

----------------------------------------------------------------------------
(* The landing page *)

InitLanding == InitSignup

NextLanding ==
    \/ PrevClick
    \/ NextClick
    \/ \E index \in 0..(Testimonials - 1) : DotClick(index)
    \/ \E id \in 1..MaxIntervals : AutoAdvance(id)
    \/ MouseEnter
    \/ MouseLeave

SpecLanding == InitLanding /\ [][NextLanding]_vars

----------------------------------------------------------------------------
(* Properties *)

Status(marker) == statusIndicator.classList = {marker}

LastElement == chatMessages[Len(chatMessages)]

RECURSIVE CountRole(_, _)
CountRole(list, role) ==
    IF list = <<>> THEN 0
    ELSE (IF Head(list).cls = "message" /\ Head(list).role = role THEN 1 ELSE 0)
             + CountRole(Tail(list), role)

\* C1: in every reachable state at most one chat-message request issued by
\* handleSendMessage is outstanding, whatever the interleaving of manual and
\* voice-triggered submit events, feedback requests and resolutions.
C1_OneSendInFlight == Len(sendRequests) <= 1

\* a submit event (here with text in the field) was turned away while a
\* request was outstanding
C1_Witness ==
    /\ Len(sendRequests) = 1
    /\ lastStep.op = "submit"
    /\ lastStep.result = "blocked"
    /\ Trim(messageInput.value) # <<>>

\* C2: in every reachable state the input control is disabled if and only if
\* a chat-message request is outstanding, and messageInput.disabled equals
\* isWaitingForResponse.
C2_DisabledIffInFlight ==
    /\ messageInput.disabled = (Len(sendRequests) > 0)
    /\ messageInput.disabled = isWaitingForResponse

\* the success handler threw and the input is enabled again
C2_Witness ==
    /\ lastStep.op = "sendResolved"
    /\ lastStep.data.status = "success"
    /\ lastStep.result = "threw"
    /\ ~messageInput.disabled
    /\ sendRequests = <<>>

\* the three conditions under which a submit event is to be ignored
C3_Precluded ==
    \/ Trim(messageInput.value) = <<>>
    \/ Len(sendRequests) > 0
    \/ currentConversationId = NoConversation

\* C3: a submit event that arrives while a request is in flight, or with a
\* text that is empty after trimming, or with no conversation identifier, is a
\* silent no-op: no entry and no error element appended, no request
\* dispatched, status, input flag, in-flight flag and input text unchanged.
C3_SilentNoOp ==
    [][(lastStep'.op = "submit" /\ C3_Precluded)
          => /\ lastStep'.result = "blocked"
             /\ UNCHANGED <<chatMessages, sendRequests, feedbackRequests,
                            fetchCount, statusIndicator, messageInput,
                            isWaitingForResponse>>]_vars

\* a submit event with text in the field was ignored while a request was in
\* flight
C3_Witness ==
    /\ lastStep.op = "submit"
    /\ lastStep.result = "blocked"
    /\ isWaitingForResponse
    /\ Trim(messageInput.value) # <<>>
    /\ currentConversationId # NoConversation

\* a submit event that is accepted echoes the trimmed text as one user entry
\* and dispatches one request, which sees the echo already rendered
C4_EchoBeforeDispatch ==
    (lastStep'.op = "submit" /\ ~C3_Precluded)
        => /\ chatMessages' =
                  Append(chatMessages,
                         [cls |-> "message", role |-> "user",
                          content |-> Trim(messageInput.value),
                          timestamp |-> <<"12", ":", "00">>,
                          fadeOut |-> FALSE])
           /\ Len(sendRequests') = Len(sendRequests) + 1
           /\ sendRequests'[Len(sendRequests')].messageText
                  = Trim(messageInput.value)
           /\ sendRequests'[Len(sendRequests')].rendered
                  = CountMessages(chatMessages) + 1

\* C4 as stated: every request that resolves with status 'success' appends
\* exactly one assistant-role entry, whatever the message payload is.
C4_ReplyForAnyPayload ==
    [][/\ C4_EchoBeforeDispatch
       /\ (lastStep'.op = "sendResolved" /\ lastStep'.data.status = "success")
             => /\ Len(chatMessages') = Len(chatMessages) + 1
                /\ chatMessages'[Len(chatMessages')].cls = "message"
                /\ chatMessages'[Len(chatMessages')].role = "assistant"
      ]_vars

\* C4 (amended): an accepted submit appends exactly one user-role entry
\* before the request is dispatched; an assistant-role entry is appended only
\* in the step that resolves a request with status 'success', and exactly one
\* is appended there when the payload is a message record of role 'assistant'
\* with string content; a success response with no message record appends
\* nothing, and one whose assistant content is not a string appends no
\* message entry.
C4_ReplyForRenderablePayload ==
    [][/\ C4_EchoBeforeDispatch
       /\ CountRole(chatMessages', "assistant") # CountRole(chatMessages, "assistant")
             => /\ lastStep'.op = "sendResolved"
                /\ lastStep'.data.status = "success"
       /\ (lastStep'.op = "sendResolved" /\ lastStep'.data.status = "success")
             => LET m == lastStep'.data.message
                IN  /\ m.isNull => chatMessages' = chatMessages
                    /\ (~m.isNull /\ m.role = "assistant"
                            /\ m.content = Undefined)
                          => CountMessages(chatMessages')
                                 = CountMessages(chatMessages)
                    /\ (~m.isNull /\ m.role = "assistant"
                            /\ m.content # Undefined)
                          => /\ Len(chatMessages') = Len(chatMessages) + 1
                             /\ SubSeq(chatMessages', 1, Len(chatMessages))
                                    = chatMessages
                             /\ chatMessages'[Len(chatMessages')].cls = "message"
                             /\ chatMessages'[Len(chatMessages')].role
                                    = "assistant"
      ]_vars

\* a success response with an assistant message has just been rendered
C4_Witness ==
    /\ lastStep.op = "sendResolved"
    /\ lastStep.data.status = "success"
    /\ lastStep.data.message = Message("assistant", Txt_reply, ServerTime)
    /\ Len(chatMessages) >= 2
    /\ LastElement.role = "assistant"
    /\ chatMessages[Len(chatMessages) - 1].role = "user"

\* a chat-message request that ended in failure: rejected by the transport or
\* the parser, a body without a status, or a status other than 'success'
C5_Failed(data) ==
    \/ data.type = "reject"
    \/ data.isNull
    \/ data.status # "success"

\* the error text the failure of a chat-message request is to show
C5_ErrorText(data, text) ==
    IF data.type = "reject"
    THEN text = <<"Error sending message: ">> \o data.errorMessage
    ELSE IF data.isNull
    THEN Head(text) = "Error sending message: "
    ELSE IF data.error # Undefined /\ data.error # <<>>
    THEN text = data.error
    ELSE text = <<"Failed to send message">>

\* C5: when a chat-message request ends in failure the input is re-enabled,
\* the in-flight flag is cleared, exactly one error element is shown (the
\* server's error text if present, otherwise a fallback), the status becomes
\* 'error', no message entry is appended, and the title and the feedback
\* control's enabled flag are unchanged.
C5_FailureHandled ==
    [][(lastStep'.op = "sendResolved" /\ C5_Failed(lastStep'.data))
          => /\ ~messageInput'.disabled
             /\ ~isWaitingForResponse'
             /\ Len(chatMessages') = Len(chatMessages) + 1
             /\ SubSeq(chatMessages', 1, Len(chatMessages)) = chatMessages
             /\ chatMessages'[Len(chatMessages')].cls = "error-message"
             /\ C5_ErrorText(lastStep'.data, lastStep'.shown)
             /\ statusIndicator'.classList = {"error"}
             /\ UNCHANGED <<chatTitle, sidebarTitle, feedbackBtn>>]_vars

\* the server refused a message with its own error text, which is shown
C5_Witness ==
    /\ lastStep.op = "sendResolved"
    /\ lastStep.data.status = "error"
    /\ lastStep.data.error = Txt_served
    /\ lastStep.shown = Txt_served
    /\ LastElement.cls = "error-message"
    /\ Status("error")

\* a click on the feedback control that requestFeedback does not turn away
C6_FeedbackAccepted ==
    /\ lastStep'.op = "feedback"
    /\ currentConversationId # NoConversation
    /\ ~feedbackBtn.disabled

\* C6: no request is retried automatically: a chat-message request is
\* dispatched in exactly the steps that are submit events passing the guard,
\* one per step, a feedback request in exactly the steps that are
\* requestFeedback calls passing its guard, and the step that settles a
\* request dispatches none and takes that request out of flight.
C6_NoRetry ==
    [][/\ fetchCount'.message =
              fetchCount.message
                  + (IF lastStep'.op = "submit" /\ ~C3_Precluded THEN 1 ELSE 0)
       /\ fetchCount'.feedback =
              fetchCount.feedback + (IF C6_FeedbackAccepted THEN 1 ELSE 0)
       /\ Len(sendRequests') =
              Len(sendRequests)
                  + (IF lastStep'.op = "submit" /\ ~C3_Precluded THEN 1 ELSE 0)
                  - (IF lastStep'.op = "sendResolved" THEN 1 ELSE 0)
       /\ feedbackRequests' =
              feedbackRequests
                  + (IF C6_FeedbackAccepted THEN 1 ELSE 0)
                  - (IF lastStep'.op = "feedbackResolved" THEN 1 ELSE 0)
      ]_vars

\* a message request failed, the user submitted again, and that failed too:
\* two requests were dispatched and none is in flight
C6_Witness ==
    /\ lastStep.op = "sendResolved"
    /\ C5_Failed(lastStep.data)
    /\ fetchCount.message = 2
    /\ sendRequests = <<>>

\* the whitespace-separated tokens of a text
RECURSIVE TokensFrom(_, _)
TokensFrom(s, cur) ==
    IF s = <<>> THEN (IF cur = <<>> THEN <<>> ELSE <<cur>>)
    ELSE IF Head(s) \in Whitespace
    THEN (IF cur = <<>> THEN <<>> ELSE <<cur>>) \o TokensFrom(Tail(s), <<>>)
    ELSE TokensFrom(Tail(s), Append(cur, Head(s)))

Tokens(s) == TokensFrom(s, <<>>)

\* C7: after a successful reply while the title is still 'New Conversation',
\* the title stays the sentinel if the user's message has at most 2
\* whitespace-separated tokens, and otherwise becomes its first five tokens
\* joined by single spaces followed by '...', for every message text.
C7_TitleFromTokens ==
    [][(/\ lastStep'.op = "sendResolved"
        /\ lastStep'.result = "success"
        /\ chatTitle = NewConversation
        /\ Len(sendRequests) = 1)
          => LET tokens == Tokens(sendRequests[1].messageText)
             IN  chatTitle' = IF Len(tokens) > 2
                              THEN Join(Slice0(tokens, 5), SP) \o Ellipsis
                              ELSE NewConversation]_vars

\* C8 as stated: the feedback control is disabled while fewer than 4 entries
\* are rendered and is enabled in the step in which the number of rendered
\* entries first reaches 4.
C8_EnabledWhenFourthRendered ==
    /\ [](CountMessages(chatMessages) < 4 => feedbackBtn.disabled)
    /\ [][(CountMessages(chatMessages) < 4 /\ CountMessages(chatMessages') >= 4)
             => ~feedbackBtn'.disabled]_vars

\* the step that completes the success branch of a message request
C8_ReplyHandled ==
    /\ lastStep'.op = "sendResolved"
    /\ lastStep'.result = "success"

\* C8 (amended): the feedback control is disabled in every state where fewer
\* than 4 entries have been rendered; it is first enabled by the first step
\* that completes the handling of a success response with at least 4 entries
\* rendered, and by no other step; every such step leaves it enabled.
C8_EnabledByReplyAtFour ==
    /\ [](CountMessages(chatMessages) < 4 => feedbackBtn.disabled)
    /\ [][(feedbackBtn.disabled /\ ~feedbackBtn'.disabled)
             => \/ C8_ReplyHandled /\ CountMessages(chatMessages') >= 4
                \/ lastStep'.op = "feedbackResolved" /\ fetchCount.feedback > 0]_vars
    /\ [][(C8_ReplyHandled /\ CountMessages(chatMessages') >= 4)
             => ~feedbackBtn'.disabled]_vars

\* the control was first enabled by a reply that is the fifth entry: the
\* fourth was a user echo, which left it disabled
C8_Witness ==
    /\ lastStep.op = "sendResolved"
    /\ lastStep.result = "success"
    /\ CountMessages(chatMessages) = 5
    /\ LastElement.role = "assistant"
    /\ ~feedbackBtn.disabled
    /\ fetchCount.feedback = 0
    /\ CountRole(chatMessages, "user") = 3

\* C9: at most one feedback request is outstanding, and the feedback control
\* stays disabled for as long as a feedback request is outstanding.
C9_FeedbackNotReentrant ==
    /\ feedbackRequests <= 1
    /\ feedbackRequests > 0 => feedbackBtn.disabled

\* C10: when a feedback request resolves the feedback control is re-enabled
\* in every outcome; the modal becomes active and the status 'ready' only
\* when the response status is 'success'; on a non-success status or a
\* transport or parse error one error element is shown, the status becomes
\* 'error' and the modal's active flag is unchanged.
C10_FeedbackResolved ==
    [][lastStep'.op = "feedbackResolved"
          => /\ ~feedbackBtn'.disabled
             /\ (\/ feedbackModal'.active /\ ~feedbackModal.active
                 \/ "ready" \in statusIndicator'.classList)
                   => lastStep'.data.status = "success"
             /\ (lastStep'.data.type = "json" /\ lastStep'.data.status = "success"
                    /\ lastStep'.data.feedback # Undefined)
                   => /\ feedbackModal'.active
                      /\ statusIndicator'.classList = {"ready"}
             /\ lastStep'.data.status # "success"
                   => /\ Len(chatMessages') = Len(chatMessages) + 1
                      /\ chatMessages'[Len(chatMessages')].cls = "error-message"
                      /\ statusIndicator'.classList = {"error"}
                      /\ feedbackModal'.active = feedbackModal.active]_vars

\* a feedback request was rejected by the transport: the control is enabled
\* again, an error element is shown and the modal stays closed
C10_Witness ==
    /\ lastStep.op = "feedbackResolved"
    /\ lastStep.data.type = "reject"
    /\ ~feedbackBtn.disabled
    /\ ~feedbackModal.active
    /\ LastElement.cls = "error-message"
    /\ Status("error")

\* C11: while a chat-message request or a feedback request is outstanding
\* the status marker is 'loading', never 'ready' or 'error', also when a send
\* and a feedback fetch overlap.
C11_LoadingWhileOutstanding ==
    (sendRequests # <<>> \/ feedbackRequests > 0) => Status("loading")

\* the state a step passes to updateStatus, "" for a step that does not call
\* it
C12_StatePassed ==
    IF lastStep'.op \in {"submit", "feedback"}
    THEN (IF lastStep'.result = "sent" THEN "loading" ELSE "")
    ELSE IF lastStep'.op \in {"sendResolved", "feedbackResolved"}
    THEN (IF lastStep'.result = "success" THEN "ready" ELSE "error")
    ELSE ""

\* C12: the status indicator carries at most one of the markers 'ready',
\* 'loading' and 'error' in every reachable state; a step that calls
\* updateStatus leaves exactly the marker of the state passed in, and a step
\* that does not call it leaves the indicator as it is.
C12_OneMarker ==
    /\ [](Cardinality(statusIndicator.classList \cap StateMarkers) <= 1)
    /\ [][IF C12_StatePassed = ""
          THEN UNCHANGED statusIndicator
          ELSE statusIndicator'.classList \cap StateMarkers
                   = {C12_StatePassed}]_vars

\* updateStatus('Error', 'error') has replaced the marker 'loading'
C12_Witness ==
    /\ lastStep.op = "sendResolved"
    /\ lastStep.result = "refused"
    /\ statusIndicator.classList = {"error"}
    /\ statusIndicator.innerHTML = <<"error", "Error">>

\* the rendered message entries of the list, in document order
MessageEntries(list) == SelectSeq(list, LAMBDA e : e.cls = "message")

IsPrefix(a, b) == Len(a) <= Len(b) /\ SubSeq(b, 1, Len(a)) = a

\* C13: the message list is append-only: every step leaves the message
\* entries rendered before it in place, with their role, content and order,
\* and adds new ones, if any, after them; none is removed.
C13_AppendOnly ==
    [][IsPrefix(MessageEntries(chatMessages), MessageEntries(chatMessages'))]_vars

\* an error element, already fading, stands between two message entries: the
\* error display and its first timer ran, and a message was appended since
C13_Witness ==
    /\ Len(chatMessages) >= 3
    /\ chatMessages[1].cls = "message"
    /\ chatMessages[2].cls = "error-message"
    /\ chatMessages[2].fadeOut
    /\ chatMessages[3].cls = "message"

\* an assistant reply has just been rendered as the last entry of the list
AssistantRendered ==
    /\ lastStep.op = "sendResolved"
    /\ lastStep.result = "success"
    /\ ~lastStep.data.message.isNull
    /\ lastStep.data.message.role = "assistant"

\* the text of a reply just rendered, and the markup made of it
RawContent == lastStep.data.message.content
Rendered == LastElement.content

\* the text up to its first newline
FirstLine(s) ==
    LET n == IndexOf(s, NL) IN IF n = 0 THEN s ELSE SubSeq(s, 1, n - 1)

EndsWith(s, suffix) ==
    Len(s) >= Len(suffix)
        /\ SubSeq(s, Len(s) - Len(suffix) + 1, Len(s)) = suffix

\* the elements of markup: '#', '-', blanks and tags
MarkupElements ==
    {"#", "-", SP, TAB, NL, "<h3>", "</h3>", "<li>", "</li>", "<ul>", "</ul>",
     "<br>", "<b>", "</b>"}

IsPlainText(s) == \A i \in 1..Len(s) : s[i] \notin MarkupElements

\* the heading text T of a first line '### T' or '### T ###'
HeadingText(s) ==
    LET body == Drop(FirstLine(s), Len(HeaderMark))
    IN  IF EndsWith(body, HeaderTail)
        THEN SubSeq(body, 1, Len(body) - Len(HeaderTail)) ELSE body

\* C14: an assistant text whose first line is '### T', optionally followed
\* by ' ###', T being plain text, is rendered with a heading that holds T:
\* the markup starts with '<h3>', T, '</h3>'.
C14_HeadingHoldsTitle ==
    (/\ AssistantRendered
     /\ StartsWith(RawContent, HeaderMark)
     /\ HeadingText(RawContent) # <<>>
     /\ IsPlainText(HeadingText(RawContent)))
        => StartsWith(Rendered,
                      <<"<h3>">> \o HeadingText(RawContent) \o <<"</h3>">>)

\* how often x occurs in s
RECURSIVE Count(_, _)
Count(s, x) ==
    IF s = <<>> THEN 0
    ELSE (IF Head(s) = x THEN 1 ELSE 0) + Count(Tail(s), x)

HasNoTag(s) == \A i \in 1..Len(s) : s[i] \notin HtmlTags

\* the lines of a text
Lines(s) == Split(s, NL)

IsBulletLine(line) == StartsWith(line, BulletMark)

\* the lines that begin with '- '
BulletLines(s) == SelectSeq(Lines(s), IsBulletLine)

\* the maximal runs of consecutive lines that begin with '- '
BulletRuns(s) ==
    LET lines == Lines(s)
    IN  Cardinality({i \in 1..Len(lines) :
                        /\ IsBulletLine(lines[i])
                        /\ (i = 1 \/ ~IsBulletLine(lines[i - 1]))})

\* C15: in the markup of an assistant text there is one list item for every
\* line that begins with '- ' and for nothing else, and one list container
\* for every maximal run of such lines.
C15_OneListPerRun ==
    (AssistantRendered /\ HasNoTag(RawContent))
        => /\ Count(Rendered, "<li>") = Len(BulletLines(RawContent))
           /\ Count(Rendered, "<ul>") = BulletRuns(RawContent)

\* C16: in the markup of an assistant text every newline of the text is a
\* line break: two for a blank line, one for a single newline, also after a
\* line that begins with '- '.
C16_NewlinesBecomeBreaks ==
    (AssistantRendered /\ HasNoTag(RawContent))
        => Count(Rendered, "<br>") = Count(RawContent, NL)

\* the echo of the user's message has just been rendered
UserEchoed == lastStep.op = "submit" /\ lastStep.result = "sent"

\* a message of role 'user' sent by the server has just been rendered
UserRendered ==
    /\ lastStep.op = "sendResolved"
    /\ lastStep.result = "success"
    /\ ~lastStep.data.message.isNull
    /\ lastStep.data.message.role = "user"

\* C17: a message of role 'user' is rendered as its raw content, with no
\* heading, list or line-break markup made of it, and as literal text: the
\* text the rendered entry shows is the raw content.
C17_UserTextLiteral ==
    /\ UserEchoed
          => LET raw == sendRequests[Len(sendRequests)].messageText
             IN  /\ Rendered = raw
                 /\ TextContent(Rendered) = raw
    /\ UserRendered
          => /\ Rendered = RawContent
             /\ TextContent(Rendered) = RawContent

\* C18: the markup showFeedbackModal puts into the modal for a feedback
\* text is the markup the message renderer makes of an assistant message
\* with the same content.
C18_ModalAsRenderer ==
    (lastStep.op = "feedbackResolved" /\ lastStep.result = "success")
        => feedbackModal.content = FormatContent(lastStep.data.feedback)

\* C19: the time shown with a rendered message is the hour:minute text of
\* its timestamp where that is parseable, and of the current time where it
\* is not; it is never the marker of an invalid date.
C19_TimeShown ==
    (AssistantRendered \/ UserRendered)
        => LET date == NewDate(lastStep.data.message.timestamp)
           IN  /\ LastElement.cls = "message"
               /\ LastElement.timestamp # <<"Invalid Date">>
               /\ LastElement.timestamp =
                      IF date.valid THEN ToLocaleTimeString(date)
                      ELSE ToLocaleTimeString(NewDate(Now))

\* C20: the adapter is recording or idle (isRecording).  It starts to record
\* only in the handler of the recognizer's start event, and is idle after the
\* handler of the end event and after that of every recognition error; the
\* voice indicator and the voice button are active exactly while it records;
\* after an explicit stop it is idle at last, the recognizer delivering its
\* end event.
C20_TwoStateAdapter ==
    /\ [](voiceIndicator.active = isRecording /\ voiceBtn.active = isRecording)
    /\ [][(~isRecording /\ isRecording')
             => recognizer = "starting" /\ recognizer' = "listening"]_vars
    /\ [][(recognizer # "inactive" /\ recognizer' = "inactive")
             => ~isRecording']_vars
    /\ [][lastStep'.op = "recognitionError" => ~isRecording']_vars
    /\ (recognizer = "stopping") ~> ~isRecording

\* the user stopped a recording with text in the field (the auto-submit
\* timer is pending), the end event came, and the adapter is idle
C20_Witness ==
    /\ submitTimers > 0
    /\ recognizer = "inactive"
    /\ ~isRecording
    /\ ~voiceIndicator.active
    /\ ~voiceBtn.active

\* C21: while the recognizer delivers results, the handler of every result
\* event leaves in the input field the concatenation, in result order, of the
\* top transcripts of the event's result list, whatever the field held
\* before, and leaves everything else as it is.
C21_ResultReplacesText ==
    isRecording
        => \A results \in ResultLists :
              /\ ENABLED OnResult(results)
              /\ ~ENABLED (/\ OnResult(results)
                           /\ messageInput'.value # Concat(results))
              /\ ~ENABLED (/\ OnResult(results)
                           /\ \/ messageInput'.disabled # messageInput.disabled
                              \/ chatMessages' # chatMessages
                              \/ isRecording' # isRecording
                              \/ submitTimers' # submitTimers)

\* a result event has replaced the text typed before it: the field holds the
\* transcript 'a b c' while the adapter records and no request was made
C21_Witness ==
    /\ isRecording
    /\ recognizer = "listening"
    /\ messageInput.value = <<"a", SP, "b", SP, "c">>
    /\ fetchCount.message = 0

\* Everything a stop of the voice input can change besides the step record.
StopLeaves ==
    <<messageInput, isWaitingForResponse, currentConversationId,
      statusIndicator, chatMessages, chatTitle, sidebarTitle, feedbackBtn,
      sendRequests, feedbackRequests, feedbackModal, bodyModalOpen,
      recognition, recognizer, isRecording, voiceIndicator, voiceBtn,
      submitTimers, fetchCount, passCount>>

\* C22: a stop while recording sets one auto-submit timer if the trimmed text
\* of the field is non-empty and none if it is empty; a stop while not
\* recording changes nothing; timers are set by nothing else, a timer that
\* goes away has dispatched a submit event, and a pending timer is followed
\* by a submit event (as long as the exploration lets requests be issued).
C22_StopSchedulesSubmit ==
    /\ [](isRecording /\ Trim(messageInput.value) # <<>>
             /\ submitTimers < TimerBudget
          => /\ ENABLED StopVoiceInput
             /\ ~ENABLED (StopVoiceInput
                          /\ submitTimers' # submitTimers + 1))
    /\ [](isRecording /\ Trim(messageInput.value) = <<>>
          => /\ ENABLED StopVoiceInput
             /\ ~ENABLED (StopVoiceInput /\ submitTimers' # submitTimers))
    /\ [](~isRecording
          => /\ ENABLED StopVoiceInput
             /\ ~ENABLED (StopVoiceInput /\ StopLeaves' # StopLeaves))
    /\ [][submitTimers' > submitTimers
            => /\ isRecording
               /\ Trim(messageInput.value) # <<>>
               /\ submitTimers' = submitTimers + 1
               /\ recognizer' = "stopping"]_vars
    /\ [][submitTimers' < submitTimers
            => /\ submitTimers' = submitTimers - 1
               /\ lastStep'.op = "submit"]_vars
    /\ (submitTimers > 0 /\ passCount.message < SendBudget)
          ~> (lastStep.op = "submit")

\* a stop with the transcript 'a b c' in the field has set a timer, which
\* has not fired yet
C22_Witness ==
    /\ recognizer = "stopping"
    /\ isRecording
    /\ submitTimers = 1
    /\ messageInput.value = <<"a", SP, "b", SP, "c">>
    /\ lastStep = Event

MicrophoneDenied ==
    <<"Microphone access denied. Please check your browser permissions.">>

Contains(text, piece) == \E i \in 1..Len(text) : text[i] = piece

\* C23: a step of the recognition error handler appends exactly one error
\* element, leaves the adapter idle with both indicators off, shows the
\* microphone-permission message for 'not-allowed' and a message containing
\* the code for any other code, and changes neither the status indicator,
\* nor the in-flight flag, nor the message entries of the list.
C23_RecognitionError ==
    [][lastStep'.op = "recognitionError"
         => /\ chatMessages' = Append(chatMessages, ErrorElement)
            /\ CountErrors(chatMessages') = CountErrors(chatMessages) + 1
            /\ ~isRecording'
            /\ ~voiceIndicator'.active
            /\ ~voiceBtn'.active
            /\ IF lastStep'.result = "not-allowed"
               THEN lastStep'.shown = MicrophoneDenied
               ELSE /\ Contains(lastStep'.shown, lastStep'.result)
                    /\ lastStep'.shown # MicrophoneDenied
            /\ statusIndicator' = statusIndicator
            /\ isWaitingForResponse' = isWaitingForResponse
            /\ MessageEntries(chatMessages') = MessageEntries(chatMessages)]_vars

\* the permission error arrived while a request was outstanding: its message
\* is shown, the adapter is idle and the status still reads 'Thinking...'
C23_Witness ==
    /\ lastStep.op = "recognitionError"
    /\ lastStep.result = "not-allowed"
    /\ lastStep.shown = MicrophoneDenied
    /\ CountErrors(chatMessages) = 1
    /\ ~isRecording
    /\ isWaitingForResponse
    /\ "loading" \in statusIndicator.classList

\* C24: the modal's active flag and the page scroll lock are equal in every
\* reachable state; closeFeedbackModal, which the close controls call and
\* which can be called directly, can always run and leaves both cleared; so
\* does a click outside the modal content and the feedback control while the
\* modal is active.
C24_CloseReleasesLock ==
    /\ feedbackModal.active = bodyModalOpen
    /\ ENABLED CloseFeedbackModal
    /\ ~ENABLED (CloseFeedbackModal
                 /\ (feedbackModal'.active \/ bodyModalOpen'))
    /\ feedbackModal.active
          => /\ ENABLED DocumentClickOutside
             /\ ~ENABLED (DocumentClickOutside
                          /\ (feedbackModal'.active \/ bodyModalOpen'))

\* the modal was shown with feedback and has been closed again
C24_Witness ==
    /\ feedbackModal.content # <<>>
    /\ ~feedbackModal.active
    /\ ~bodyModalOpen
    /\ fetchCount.feedback = 1
    /\ feedbackRequests = 0

DownloadIds == 1..MaxDownloads

TodaysFileName ==
    <<"s","a","l","e","s","-","f","e","e","d","b","a","c","k","-",
      "2","0","2","4","-","0","5","-","0","1", ".", "t", "x", "t">>

\* C25: a call of downloadFeedback allocates one URL and one anchor that
\* were not there, saves exactly one file, named 'sales-feedback-' and the
\* current date and '.txt', through that URL; nothing else saves a file or
\* allocates; every allocated URL and anchor has its clean-up timer pending,
\* so that none is left once all timers have fired; and every allocated URL
\* is eventually revoked and its anchor removed, however the downloads
\* overlap.
C25_DownloadReleases ==
    /\ [][savedFiles' # savedFiles
            => \E n \in DownloadIds \ (objectURLs \cup bodyAnchors) :
                  /\ objectURLs' = objectURLs \cup {n}
                  /\ bodyAnchors' = bodyAnchors \cup {n}
                  /\ \A f \in 1..Len(savedFiles) : savedFiles[f].href # n
                  /\ Len(savedFiles') = Len(savedFiles) + 1
                  /\ SubSeq(savedFiles', 1, Len(savedFiles)) = savedFiles
                  /\ savedFiles'[Len(savedFiles')].href = n
                  /\ savedFiles'[Len(savedFiles')].download = TodaysFileName]_vars
    /\ [][savedFiles' = savedFiles
            => /\ objectURLs' \subseteq objectURLs
               /\ bodyAnchors' \subseteq bodyAnchors]_vars
    /\ [](objectURLs = cleanupTimers /\ bodyAnchors = cleanupTimers)
    /\ \A n \in DownloadIds :
           (n \in objectURLs \/ n \in bodyAnchors)
              ~> (n \notin objectURLs /\ n \notin bodyAnchors)

\* two downloads overlap: both files are saved and neither clean-up timer
\* has fired yet
C25_Witness ==
    /\ Len(savedFiles) = 2
    /\ objectURLs = {1, 2}
    /\ bodyAnchors = {1, 2}
    /\ savedFiles[2].download = TodaysFileName
    /\ savedFiles[2].text # <<>>

\* The six criteria of the strength of a password.
Criteria == {"length8", "length12", "uppercase", "lowercase", "digit", "other"}

Satisfies(password, criterion) ==
    LET Has(class) == \E i \in 1..Len(password) : password[i] \in class
    IN  CASE criterion = "length8" -> Len(password) >= 8
          [] criterion = "length12" -> Len(password) >= 12
          [] criterion = "uppercase" -> Has(UpperCase)
          [] criterion = "lowercase" -> Has(LowerCase)
          [] criterion = "digit" -> Has(Digits)
          [] criterion = "other" ->
                 \E i \in 1..Len(password) :
                     /\ password[i] \notin UpperCase
                     /\ password[i] \notin LowerCase
                     /\ password[i] \notin Digits

Score(password) ==
    Cardinality({criterion \in Criteria : Satisfies(password, criterion)})

\* C26: the meter shows, for the password of the field, 'Strong' iff the
\* number of satisfied criteria is at least 5, 'Medium' iff it is 3 or 4 and
\* 'Weak' iff it is at most 2; 'abc' is Weak, 'Abcdefgh1' is Medium and
\* 'Ab1!Ab1!Ab1!' is Strong.
C26_StrengthBuckets ==
    LET score == Score(signupForm.password)
    IN  /\ score \in 0..6
        /\ strengthMeter.text \in {"Weak", "Medium", "Strong"}
        /\ strengthMeter.text = "Strong" <=> score >= 5
        /\ strengthMeter.text = "Medium" <=> (3 <= score /\ score <= 4)
        /\ strengthMeter.text = "Weak" <=> score <= 2
        /\ signupForm.password = Pw_abc => strengthMeter.text = "Weak"
        /\ signupForm.password = Pw_Abcdefgh1 => strengthMeter.text = "Medium"
        /\ signupForm.password = Pw_Ab1 => strengthMeter.text = "Strong"

\* the password 'Abcdefgh1' has been typed and the meter reads 'Medium'
C26_Witness ==
    /\ signupForm.password = Pw_Abcdefgh1
    /\ Score(signupForm.password) = 4
    /\ strengthMeter.text = "Medium"
    /\ strengthMeter.segments = <<"medium", "medium", "">>

\* The form fails one of the four checks.
Invalid(form) ==
    \/ form.name = <<>> \/ form.email = <<>>
    \/ form.password = <<>> \/ form.confirmPassword = <<>>
    \/ form.password # form.confirmPassword
    \/ Len(form.password) < 8
    \/ ~form.agree

\* C27: a submit of a signup form that fails a check shows an inline error,
\* dispatches no registration request and leaves the button as it is; a
\* submit of a form that passes all four dispatches one; and a request is
\* dispatched by nothing but a submit of a form that passes all four.
C27_ValidatedBeforeDispatch ==
    /\ [][lastStep'.op = "signupSubmit"
            => IF Invalid(signupForm)
               THEN /\ signupError'.display = "block"
                    /\ signupError'.textContent # <<>>
                    /\ signupError'.textContent = lastStep'.shown
                    /\ registerCount' = registerCount
                    /\ registerRequest' = registerRequest
                    /\ submitButton' = submitButton
               ELSE /\ registerCount' = registerCount + 1
                    /\ Len(registerRequest') = 1]_vars
    /\ [][registerCount' # registerCount \/ Len(registerRequest') > Len(registerRequest)
            => /\ ~Invalid(signupForm)
               /\ lastStep'.op = "signupSubmit"]_vars

\* a form that is complete but for the agreement has been submitted: the
\* error is shown and no request was made
C27_Witness ==
    /\ lastStep.op = "signupSubmit"
    /\ lastStep.result = "invalid"
    /\ signupForm.password = Pw_Abcdefgh1
    /\ signupForm.confirmPassword = Pw_Abcdefgh1
    /\ signupForm.name # <<>>
    /\ signupForm.email # <<>>
    /\ ~signupForm.agree
    /\ signupError.display = "block"
    /\ signupError.textContent = Msg_agree
    /\ registerCount = 0
    /\ ~submitButton.disabled

\* C28: an error shown on the signup page is eventually hidden again without
\* any further user action, as long as the page is not left.
C28_ErrorDismissed ==
    (signupError.display = "block" /\ location = SignupPage)
        ~> (signupError.display = "none" \/ location # SignupPage)

\* C29: the title changes only with the reply to the first submitted
\* message, that is while one message was submitted in all, and only away
\* from the sentinel; once it differs from the sentinel neither it nor the
\* sidebar entry's title changes again.
C29_TitleFromFirstMessage ==
    /\ [][chatTitle' # chatTitle
            => /\ chatTitle = NewConversation
               /\ fetchCount.message = 1]_vars
    /\ [][chatTitle # NewConversation
            => /\ chatTitle' = chatTitle
               /\ sidebarTitle' = sidebarTitle]_vars

\* C30: at most one voice auto-submit timer is pending at any time, however
\* often the stop control is activated before the recognizer's end event.
C30_OneTimerPending == submitTimers <= 1

\* C31: under any sequence of mouseenter and mouseleave events at most one
\* auto-advance interval timer is live, and no auto-advance step occurs
\* between a mouseenter and the next mouseleave.
C31_OneIntervalLive ==
    /\ [](Cardinality(liveIntervals) <= 1)
    /\ [][lastStep'.op = "autoAdvance"
            => carouselHover # "mouseenter"]_vars

====
